---------------------------- MODULE Spec2Model ----------------------------
(***************************************************************************)
(* Model of the kumiko-designer geometry engine (src/src/geometry) .       *)
(*                                                                         *)
(* Numbers.  The TypeScript code computes in IEEE doubles.  Every length   *)
(* of an equilateral grid triangle with a rational edge is of the form     *)
(* (a + b*sqrt(3))/d with integers a, b, d, so the model computes in that  *)
(* field exactly: a number is the tuple <<a, b, d>> with d > 0 and         *)
(* gcd(a, b, d) = 1.  Equality of numbers is equality of tuples.  Rounding *)
(* of the doubles is not modelled; a square root that leaves the field     *)
(* has no value in the model (TLC stops with an error).                    *)
(***************************************************************************)
EXTENDS Integers, Sequences, FiniteSets, TLC

VARIABLES
    call,   \* the invocation under way: the function's name and its arguments
    ret     \* the value it returned; NoValue while it has not run

vars == <<call, ret>>

NoValue == [none |-> TRUE]
null == [null |-> TRUE]

-----------------------------------------------------------------------------
(* Exact arithmetic in Q(sqrt 3)                                           *)

IAbs(n) == IF n < 0 THEN -n ELSE n

RECURSIVE GCD(_, _)
GCD(m, n) == IF n = 0 THEN m ELSE GCD(n, m % n)

\* (a + b*sqrt3)/d in lowest terms with a positive denominator
NormBy(a, b, d, g) == <<a \div g, b \div g, d \div g>>

Norm(a, b, d) ==
    IF d < 0 THEN NormBy(-a, -b, -d, GCD(GCD(IAbs(a), IAbs(b)), IAbs(d)))
    ELSE NormBy(a, b, d, GCD(GCD(IAbs(a), IAbs(b)), IAbs(d)))

QInt(n) == <<n, 0, 1>>
QFrac(n, d) == Norm(n, 0, d)
Zero == QInt(0)
Sqrt3 == <<0, 1, 1>>

QNeg(p) == <<-p[1], -p[2], p[3]>>
\* the sum over the least common denominator; g is the GCD of the denominators
QAddBy(p, q, g) ==
    Norm(p[1] * (q[3] \div g) + q[1] * (p[3] \div g),
         p[2] * (q[3] \div g) + q[2] * (p[3] \div g),
         (p[3] \div g) * q[3])

QAdd(p, q) == QAddBy(p, q, GCD(p[3], q[3]))
QSub(p, q) == QAdd(p, QNeg(q))
QMul(p, q) == Norm(p[1] * q[1] + 3 * p[2] * q[2], p[1] * q[2] + p[2] * q[1], p[3] * q[3])
\* 1/(a + b*sqrt3) = (a - b*sqrt3)/(a^2 - 3b^2); the divisor is not zero
QInv(q) == Norm(q[3] * q[1], -(q[3] * q[2]), q[1] * q[1] - 3 * q[2] * q[2])
QDiv(p, q) == QMul(p, QInv(q))

\* the sign of t/q - sqrt3 for t >= 0 and q > 0, by the continued fraction
\* [1; 1, 2, 1, 2, ...] of sqrt3; i is the index of the partial quotient
RECURSIVE CmpSqrt3(_, _, _)
CmpSqrt3(t, q, i) ==
    LET a == t \div q
        digit == IF i = 0 \/ i % 2 = 1 THEN 1 ELSE 2
        up == IF i % 2 = 0 THEN 1 ELSE -1
    IN  CASE a > digit -> up
          [] a < digit -> -up
          [] t % q = 0 -> -up
          [] OTHER -> CmpSqrt3(q, t % q, i + 1)

\* sign of a + b*sqrt3: -1, 0 or 1
QSign(p) ==
    LET a == p[1]
        b == p[2]
    IN  IF a = 0 /\ b = 0 THEN 0
        ELSE IF a >= 0 /\ b >= 0 THEN 1
        ELSE IF a <= 0 /\ b <= 0 THEN -1
        ELSE IF a > 0 THEN (IF a * a > 3 * b * b THEN 1 ELSE -1)
        ELSE (IF 3 * b * b > a * a THEN 1 ELSE -1)

QLt(p, q) == QSign(QSub(p, q)) < 0
QLe(p, q) == QSign(QSub(p, q)) <= 0
QGt(p, q) == QLt(q, p)
QGe(p, q) == QLe(q, p)
QAbs(p) == IF QSign(p) < 0 THEN QNeg(p) ELSE p

\* floor of the integer square root, by bisection
RECURSIVE ISqrtIn(_, _, _)
ISqrtIn(n, lo, hi) ==
    IF lo >= hi THEN lo
    ELSE LET mid == (lo + hi + 1) \div 2
         IN  IF mid * mid <= n THEN ISqrtIn(n, mid, hi) ELSE ISqrtIn(n, lo, mid - 1)

ISqrt(n) == ISqrtIn(n, 0, IF n < 46340 THEN n ELSE 46340)

IsSquare(n) == n >= 0 /\ ISqrt(n) * ISqrt(n) = n

\* the positive one of x + y*sqrt3 and its negative, over d
QRootSigned(x, y, d) ==
    IF QSign(<<x, y, 1>>) < 0 THEN Norm(-x, -y, d) ELSE Norm(x, y, d)

\* the root of (a + b*sqrt3)/d^2 with b # 0: x + y*sqrt3 with x^2 + 3y^2 = a and
\* 2xy = b, where x^2 is one of (a + n)/2 and (a - n)/2, n^2 = a^2 - 3b^2
QRootOf(a, b, d, x1, x2) ==
    CASE x1 > 0 /\ b % (2 * x1) = 0
         /\ x1 * x1 + 3 * (b \div (2 * x1)) * (b \div (2 * x1)) = a
           -> QRootSigned(x1, b \div (2 * x1), d)
      [] x2 > 0 /\ b % (2 * x2) = 0
         /\ x2 * x2 + 3 * (b \div (2 * x2)) * (b \div (2 * x2)) = a
           -> QRootSigned(x2, b \div (2 * x2), d)

QRootBy(a, b, d, n) ==
    QRootOf(a, b, d, ISqrt((a + n) \div 2), ISqrt((a - n) \div 2))

\* the root of a value with a sqrt3 part: over the root rd of its denominator
\* when that is a square, over the denominator itself otherwise
QRootNum(p, rd) ==
    IF rd * rd = p[3]
    THEN QRootBy(p[1], p[2], rd, ISqrt(p[1] * p[1] - 3 * p[2] * p[2]))
    ELSE QRootBy(p[1] * p[3], p[2] * p[3], p[3],
                 ISqrt(p[1] * p[3] * p[1] * p[3] - 3 * p[2] * p[3] * p[2] * p[3]))

\* r is the integer root of n, r3 that of 3n, where p = n/d^2
QSqrtBy(p, n, r, r3) ==
    CASE p[2] = 0 /\ n >= 0 /\ r * r = n -> Norm(r, 0, p[3])
      [] p[2] = 0 /\ n >= 0 /\ r3 * r3 = 3 * n -> Norm(0, r3, 3 * p[3])
      [] p[2] # 0 /\ p[1] > 0 -> QRootNum(p, ISqrt(p[3]))

\* Math.sqrt of a non-negative value that is the square of some (x + y*sqrt3)/z
QSqrt(p) ==
    QSqrtBy(p, p[1] * p[3],
            IF p[1] >= 0 THEN ISqrt(p[1] * p[3]) ELSE 0,
            IF p[1] >= 0 THEN ISqrt(3 * p[1] * p[3]) ELSE 0)

\* Math.floor and Math.ceil
QFloor(p) ==
    LET s == ISqrt(3 * p[2] * p[2])
        lo == IF p[2] >= 0 THEN (p[1] + s) \div p[3] ELSE (p[1] - s - 1) \div p[3]
    IN  IF QLe(QInt(lo + 1), p) THEN lo + 1 ELSE lo

QCeil(p) == -QFloor(QNeg(p))


-----------------------------------------------------------------------------
(* src/src/geometry/triangle.ts                                            *)

Pt(px, py) == [x |-> px, y |-> py]

\* Math.cos and Math.sin of degrees*PI/180 for the angles rotateTriangle takes;
\* the angle is carried as its number of degrees
MathCos(angle) ==
    CASE angle = 0 -> QInt(1)
      [] angle = 120 -> QFrac(-1, 2)
      [] angle = 240 -> QFrac(-1, 2)

MathSin(angle) ==
    CASE angle = 0 -> Zero
      [] angle = 120 -> Norm(0, 1, 2)
      [] angle = 240 -> Norm(0, -1, 2)

triangleHeight(edgeLength) == QMul(edgeLength, QDiv(Sqrt3, QInt(2)))

centroid(A, B, C) ==
    Pt(QDiv(QAdd(QAdd(A.x, B.x), C.x), QInt(3)),
       QDiv(QAdd(QAdd(A.y, B.y), C.y), QInt(3)))

midpoint(p1, p2) ==
    Pt(QDiv(QAdd(p1.x, p2.x), QInt(2)), QDiv(QAdd(p1.y, p2.y), QInt(2)))

\* Math.sqrt(dx * dx + dy * dy)
hypot(dx, dy) == QSqrt(QAdd(QMul(dx, dx), QMul(dy, dy)))

distance(p1, p2) == hypot(QSub(p2.x, p1.x), QSub(p2.y, p1.y))

normalizeBy(v, len) ==
    IF len = Zero THEN Pt(Zero, Zero)
    ELSE Pt(QDiv(v.x, len), QDiv(v.y, len))

normalize(v) == normalizeBy(v, hypot(v.x, v.y))

perpendicular(v) == Pt(QNeg(v.y), v.x)

add(p1, p2) == Pt(QAdd(p1.x, p2.x), QAdd(p1.y, p2.y))

subtract(p1, p2) == Pt(QSub(p1.x, p2.x), QSub(p1.y, p2.y))

scale(p, factor) == Pt(QMul(p.x, factor), QMul(p.y, factor))

\* rotatePoint with the sign of dy * sin wrong in x
rotatePoint_signSlip(point, origin, angle) ==
    LET cos == MathCos(angle)
        sin == MathSin(angle)
        dx == QSub(point.x, origin.x)
        dy == QSub(point.y, origin.y)
    IN  Pt(QAdd(QAdd(origin.x, QMul(dx, cos)), QMul(dy, sin)),
           QAdd(QAdd(origin.y, QMul(dx, sin)), QMul(dy, cos)))

rotatePoint(point, origin, angle) ==
    LET cos == MathCos(angle)
        sin == MathSin(angle)
        dx == QSub(point.x, origin.x)
        dy == QSub(point.y, origin.y)
    IN  Pt(QSub(QAdd(origin.x, QMul(dx, cos)), QMul(dy, sin)),
           QAdd(QAdd(origin.y, QMul(dx, sin)), QMul(dy, cos)))

rotateTriangle(tri, degrees) ==
    IF degrees = 0 THEN tri
    ELSE LET angle == degrees
             c == tri.centroid
         IN  [A |-> rotatePoint(tri.A, c, angle),
              B |-> rotatePoint(tri.B, c, angle),
              C |-> rotatePoint(tri.C, c, angle),
              centroid |-> c,
              isUpPointing |-> tri.isUpPointing]

\* getTriangleForCell with a column stride of a whole edge instead of half an edge
getTriangleForCell_fullStride(row, col, edgeLength, originX, originY) ==
    LET h == triangleHeight(edgeLength)
        halfEdge == QDiv(edgeLength, QInt(2))
        isUpPointing == (row + col) % 2 = 0
        baseX == QAdd(originX, QMul(QInt(col), edgeLength))
        baseY == QAdd(originY, QMul(QInt(row), h))
        A == IF isUpPointing
             THEN Pt(QAdd(baseX, halfEdge), baseY)
             ELSE Pt(QAdd(baseX, halfEdge), QAdd(baseY, h))
        B == IF isUpPointing
             THEN Pt(baseX, QAdd(baseY, h))
             ELSE Pt(baseX, baseY)
        C == IF isUpPointing
             THEN Pt(QAdd(baseX, edgeLength), QAdd(baseY, h))
             ELSE Pt(QAdd(baseX, edgeLength), baseY)
    IN  [A |-> A, B |-> B, C |-> C,
         centroid |-> centroid(A, B, C),
         isUpPointing |-> isUpPointing]

getTriangleForCell(row, col, edgeLength, originX, originY) ==
    LET h == triangleHeight(edgeLength)
        halfEdge == QDiv(edgeLength, QInt(2))
        isUpPointing == (row + col) % 2 = 0
        baseX == QAdd(originX, QMul(QInt(col), halfEdge))
        baseY == QAdd(originY, QMul(QInt(row), h))
        A == IF isUpPointing
             THEN Pt(QAdd(baseX, halfEdge), baseY)
             ELSE Pt(QAdd(baseX, halfEdge), QAdd(baseY, h))
        B == IF isUpPointing
             THEN Pt(baseX, QAdd(baseY, h))
             ELSE Pt(baseX, baseY)
        C == IF isUpPointing
             THEN Pt(QAdd(baseX, edgeLength), QAdd(baseY, h))
             ELSE Pt(QAdd(baseX, edgeLength), baseY)
    IN  [A |-> A, B |-> B, C |-> C,
         centroid |-> centroid(A, B, C),
         isUpPointing |-> isUpPointing]

getEdgeVertices(tri, edge) ==
    CASE edge = "AB" -> <<tri.A, tri.B>>
      [] edge = "BC" -> <<tri.B, tri.C>>
      [] edge = "CA" -> <<tri.C, tri.A>>

getOppositeEdge(corner) ==
    CASE corner = "A" -> "BC"
      [] corner = "B" -> "CA"
      [] corner = "C" -> "AB"

getCornerPoint(tri, corner) == tri[corner]

\* the values of a count that are not finite: Infinity is above and -Infinity and
\* NaN are below every count, so that row < Infinity holds and row < NaN fails
Infinity == 2147483647
NaN == -2147483646

\* a count that is a finite number
isFinite(n) == n \notin {Infinity, -Infinity, NaN}

\* Math.ceil(length / unit) + 1, where x / 0 is Infinity, -Infinity or NaN
ceilPlusOne(length, unit) ==
    IF unit # Zero THEN QCeil(QDiv(length, unit)) + 1
    ELSE IF length = Zero THEN NaN
    ELSE IF QGt(length, Zero) THEN Infinity
    ELSE -Infinity

calculateGridDimensions(panelWidthMm, panelHeightMm, triangleSizeMm) ==
    LET h == triangleHeight(triangleSizeMm)
        halfEdge == QDiv(triangleSizeMm, QInt(2))
        cols == ceilPlusOne(panelWidthMm, halfEdge)
        rows == ceilPlusOne(panelHeightMm, h)
    IN  [rows |-> rows, cols |-> cols]

\* the local function sign of pointInTriangle
sign(p1, p2, p3) ==
    QSub(QMul(QSub(p1.x, p3.x), QSub(p2.y, p3.y)),
         QMul(QSub(p2.x, p3.x), QSub(p1.y, p3.y)))

pointInTriangle(p, tri) ==
    LET d1 == sign(p, tri.A, tri.B)
        d2 == sign(p, tri.B, tri.C)
        d3 == sign(p, tri.C, tri.A)
        hasNeg == QSign(d1) < 0 \/ QSign(d2) < 0 \/ QSign(d3) < 0
        hasPos == QSign(d1) > 0 \/ QSign(d2) > 0 \/ QSign(d3) > 0
    IN  ~(hasNeg /\ hasPos)

\* the probe loop of findCellAtPoint from (dr, dc) on, rows outermost
RECURSIVE findCellProbe(_, _, _, _, _, _, _, _)
findCellProbe(point, triangleSizeMm, originX, originY, approxRow, approxCol, dr, dc) ==
    IF dr > 1 THEN null
    ELSE IF dc > 1
    THEN findCellProbe(point, triangleSizeMm, originX, originY, approxRow, approxCol, dr + 1, -1)
    ELSE LET row == approxRow + dr
             col == approxCol + dc
         IN  IF row < 0 \/ col < 0
             THEN findCellProbe(point, triangleSizeMm, originX, originY, approxRow, approxCol, dr, dc + 1)
             ELSE IF pointInTriangle(point, getTriangleForCell(row, col, triangleSizeMm, originX, originY))
             THEN [row |-> row, col |-> col]
             ELSE findCellProbe(point, triangleSizeMm, originX, originY, approxRow, approxCol, dr, dc + 1)

\* findCellAtPoint probing the estimated cell only from the estimate on, without
\* the row above and the column to the left
findCellAtPoint_noBacktrack(point, triangleSizeMm, originX, originY) ==
    LET h == triangleHeight(triangleSizeMm)
        halfEdge == QDiv(triangleSizeMm, QInt(2))
        approxRow == QFloor(QDiv(QSub(point.y, originY), h))
        approxCol == QFloor(QDiv(QSub(point.x, originX), halfEdge))
    IN  findCellProbe(point, triangleSizeMm, originX, originY, approxRow, approxCol, 0, 0)

findCellAtPoint(point, triangleSizeMm, originX, originY) ==
    LET h == triangleHeight(triangleSizeMm)
        halfEdge == QDiv(triangleSizeMm, QInt(2))
        approxRow == QFloor(QDiv(QSub(point.y, originY), h))
        approxCol == QFloor(QDiv(QSub(point.x, originX), halfEdge))
    IN  findCellProbe(point, triangleSizeMm, originX, originY, approxRow, approxCol, -1, -1)

-----------------------------------------------------------------------------
(* src/src/geometry/clipping.ts                                            *)

\* The parallel test is Math.abs(cross) < 1e-10.  Every number of the model is a
\* multiple of a denominator far coarser than 1e-10, so the test is cross = 0.
intersectionAt(p1, d1, t) ==
    Pt(QAdd(p1.x, QMul(t, d1.x)), QAdd(p1.y, QMul(t, d1.y)))

intersectionBy(p1, d1, d2, d3, cross) ==
    IF QAbs(cross) = Zero THEN null
    ELSE intersectionAt(p1, d1, QDiv(QSub(QMul(d3.x, d2.y), QMul(d3.y, d2.x)), cross))

intersectionOf(p1, d1, d2, d3) ==
    intersectionBy(p1, d1, d2, d3, QSub(QMul(d1.x, d2.y), QMul(d1.y, d2.x)))

lineLineIntersection(p1, p2, p3, p4) ==
    intersectionOf(p1, subtract(p2, p1), subtract(p4, p3), subtract(p1, p3))

lineSide(lineStart, lineEnd, point) ==
    QSub(QMul(QSub(lineEnd.x, lineStart.x), QSub(point.y, lineStart.y)),
         QMul(QSub(lineEnd.y, lineStart.y), QSub(point.x, lineStart.x)))

AppendIf(list, value) == IF value = null THEN list ELSE Append(list, value)

\* one pass of the Sutherland-Hodgman inner loop, from index i (1-based) on;
\* the same loop body stands in clipPolygonToTriangle and clipPolygonToRect
RECURSIVE clipAgainstEdge(_, _, _, _, _)
clipAgainstEdge(inputList, clipStart, clipEnd, i, outputList) ==
    IF i > Len(inputList) THEN outputList
    ELSE LET current == inputList[i]
             next == inputList[(i % Len(inputList)) + 1]
             currentInside == QSign(lineSide(clipStart, clipEnd, current)) >= 0
             nextInside == QSign(lineSide(clipStart, clipEnd, next)) >= 0
             intersection == lineLineIntersection(current, next, clipStart, clipEnd)
             out == IF currentInside
                    THEN IF ~nextInside
                         THEN AppendIf(Append(outputList, current), intersection)
                         ELSE Append(outputList, current)
                    ELSE IF nextInside
                         THEN AppendIf(outputList, intersection)
                         ELSE outputList
         IN  clipAgainstEdge(inputList, clipStart, clipEnd, i + 1, out)

\* the outer loop over the clip edges, with its break on an empty list
RECURSIVE clipAgainstEdges(_, _, _)
clipAgainstEdges(outputList, clipEdges, k) ==
    IF k > Len(clipEdges) \/ Len(outputList) = 0 THEN outputList
    ELSE clipAgainstEdges(
             clipAgainstEdge(outputList, clipEdges[k][1], clipEdges[k][2], 1, <<>>),
             clipEdges, k + 1)

clipPolygonToTriangle(polygon, tri) ==
    LET clipEdges == << <<tri.A, tri.B>>, <<tri.B, tri.C>>, <<tri.C, tri.A>> >>
    IN  clipAgainstEdges(polygon, clipEdges, 1)

clipPolygonToRect(polygon, minX, minY, maxX, maxY) ==
    LET clipEdges == << <<Pt(minX, minY), Pt(maxX, minY)>>,
                        <<Pt(maxX, minY), Pt(maxX, maxY)>>,
                        <<Pt(maxX, maxY), Pt(minX, maxY)>>,
                        <<Pt(minX, maxY), Pt(minX, minY)>> >>
    IN  clipAgainstEdges(polygon, clipEdges, 1)

\* outcodes of clipLineToRect
INSIDE == 0
LEFT == 1
RIGHT == 2
BOTTOM == 4
TOP == 8

\* code & bit /= 0, for a single bit
HasBit(code, bit) == (code \div bit) % 2 = 1

\* code0 & code1
BitAnd(code0, code1) ==
    (IF HasBit(code0, LEFT) /\ HasBit(code1, LEFT) THEN LEFT ELSE 0)
    + (IF HasBit(code0, RIGHT) /\ HasBit(code1, RIGHT) THEN RIGHT ELSE 0)
    + (IF HasBit(code0, BOTTOM) /\ HasBit(code1, BOTTOM) THEN BOTTOM ELSE 0)
    + (IF HasBit(code0, TOP) /\ HasBit(code1, TOP) THEN TOP ELSE 0)

\* computeCode without the test against maxY
computeCode_noTop(p, minX, minY, maxX, maxY) ==
    (IF QLt(p.x, minX) THEN LEFT ELSE IF QGt(p.x, maxX) THEN RIGHT ELSE INSIDE)
    + (IF QLt(p.y, minY) THEN BOTTOM ELSE INSIDE)

computeCode(p, minX, minY, maxX, maxY) ==
    (IF QLt(p.x, minX) THEN LEFT ELSE IF QGt(p.x, maxX) THEN RIGHT ELSE INSIDE)
    + (IF QLt(p.y, minY) THEN BOTTOM ELSE IF QGt(p.y, maxY) THEN TOP ELSE INSIDE)

\* the iterations of while (true) that are followed
MaxReclips == 8

\* an outside point taken from the second end only
clipCodeOut_second(code0, code1) == code1

\* codeOut: the code of an end that is outside
clipCodeOut(code0, code1) == IF code0 # 0 THEN code0 ELSE code1

\* what the iteration divides by
clipDivisor(x0, y0, x1, y1, codeOut) ==
    IF HasBit(codeOut, TOP) \/ HasBit(codeOut, BOTTOM) THEN QSub(y1, y0) ELSE QSub(x1, x0)

\* the point the outside end is moved to
clipPoint(x0, y0, x1, y1, codeOut, minX, minY, maxX, maxY) ==
    IF HasBit(codeOut, TOP)
    THEN Pt(QAdd(x0, QDiv(QMul(QSub(x1, x0), QSub(maxY, y0)), QSub(y1, y0))), maxY)
    ELSE IF HasBit(codeOut, BOTTOM)
    THEN Pt(QAdd(x0, QDiv(QMul(QSub(x1, x0), QSub(minY, y0)), QSub(y1, y0))), minY)
    ELSE IF HasBit(codeOut, RIGHT)
    THEN Pt(maxX, QAdd(y0, QDiv(QMul(QSub(y1, y0), QSub(maxX, x0)), QSub(x1, x0))))
    ELSE Pt(minX, QAdd(y0, QDiv(QMul(QSub(y1, y0), QSub(minX, x0)), QSub(x1, x0))))

\* how the loop went: the value returned, the re-clips done, whether it returned
\* and whether an iteration divided by zero
Ran(value, n, returned, zeroDivisor) ==
    [value |-> value, reclips |-> n, returned |-> returned, zeroDivisor |-> zeroDivisor]

\* the while (true) loop of clipLineToRect; n counts the re-clips done so far.  It
\* is followed for MaxReclips iterations and up to a division by zero, which
\* gives coordinates that are not numbers
RECURSIVE clipLineLoop(_, _, _, _, _, _, _, _, _, _, _)
clipLineLoop(x0, y0, x1, y1, code0, code1, minX, minY, maxX, maxY, n) ==
    IF code0 = 0 /\ code1 = 0
    THEN Ran([start |-> Pt(x0, y0), end |-> Pt(x1, y1)], n, TRUE, FALSE)
    ELSE IF BitAnd(code0, code1) # 0
    THEN Ran(null, n, TRUE, FALSE)
    ELSE IF n >= MaxReclips
    THEN Ran(null, n, FALSE, FALSE)
    ELSE IF clipDivisor(x0, y0, x1, y1, clipCodeOut(code0, code1)) = Zero
    THEN Ran(null, n, FALSE, TRUE)
    ELSE LET codeOut == clipCodeOut(code0, code1)
             p == clipPoint(x0, y0, x1, y1, codeOut, minX, minY, maxX, maxY)
         IN  IF codeOut = code0
             THEN clipLineLoop(p.x, p.y, x1, y1, computeCode(p, minX, minY, maxX, maxY), code1,
                               minX, minY, maxX, maxY, n + 1)
             ELSE clipLineLoop(x0, y0, p.x, p.y, code0, computeCode(p, minX, minY, maxX, maxY),
                               minX, minY, maxX, maxY, n + 1)

\* clipLineToRect with the account of its loop
clipLineRun(start, end, minX, minY, maxX, maxY) ==
    clipLineLoop(start.x, start.y, end.x, end.y,
                 computeCode(start, minX, minY, maxX, maxY),
                 computeCode(end, minX, minY, maxX, maxY),
                 minX, minY, maxX, maxY, 0)

clipLineToRect(start, end, minX, minY, maxX, maxY) ==
    clipLineRun(start, end, minX, minY, maxX, maxY).value

-----------------------------------------------------------------------------
(* src/src/geometry/segments.ts                                            *)

\* the table with its first two entries exchanged
edgeConfig_exchanged ==
    << [edge |-> "CA", corner |-> "B"],
       [edge |-> "BC", corner |-> "A"],
       [edge |-> "AB", corner |-> "C"] >>

\* the edge -> opposite corner table of generateEdgeParallelSegments
edgeConfig ==
    << [edge |-> "BC", corner |-> "A"],
       [edge |-> "CA", corner |-> "B"],
       [edge |-> "AB", corner |-> "C"] >>

\* The body of the for loop of generateEdgeParallelSegments is a chain of
\* definitions, one per group of consts, each handing what it computed to the
\* next.  it = [config, weight, tri, edgeWeight, edge, corner] is what the
\* iteration starts from; the result is the line pushed and the blocker
\* recorded, each as a list of 0 or 1 element.

\* lines.push and blockerInfo.push
edgeParallelPush(it, int1, int2) ==
    IF int1 = null \/ int2 = null THEN [lines |-> <<>>, blockerInfo |-> <<>>]
    ELSE [lines |-> << [start |-> int1, end |-> int2, weight |-> it.weight,
                        startIntersectWeight |-> it.edgeWeight,
                        endIntersectWeight |-> it.edgeWeight] >>,
          blockerInfo |->
              IF it.config.isBlocker
              THEN << [corner |-> it.corner,
                       line |-> [start |-> int1, end |-> int2],
                       halfWidth |-> QDiv(it.weight, QInt(2))] >>
              ELSE <<>>]

\* int1 and int2: the line through linePoint cut with the two adjacent edges
edgeParallelIntersect(it, edgeDir, linePoint) ==
    edgeParallelPush(it,
        lineLineIntersection(linePoint, add(linePoint, edgeDir),
                             IF it.edge = "AB" THEN it.tri.B ELSE it.tri.A,
                             IF it.edge = "AB" THEN it.tri.C ELSE it.tri.B),
        lineLineIntersection(linePoint, add(linePoint, edgeDir),
                             IF it.edge = "CA" THEN it.tri.B ELSE it.tri.C,
                             IF it.edge = "CA" THEN it.tri.C ELSE it.tri.A))

\* the range test with both ends of the range taken as valid
distFromEdgeInvalid_strict(distFromEdge, altitudeLength) ==
    QLt(distFromEdge, Zero) \/ QGt(distFromEdge, altitudeLength)

\* "Clamp to valid range": the test that makes the loop skip the edge
distFromEdgeInvalid(distFromEdge, altitudeLength) ==
    QLe(distFromEdge, Zero) \/ QGe(distFromEdge, altitudeLength)

\* the range test, edgeMid and linePoint
edgeParallelPlace(it, edgeDir, perpToEdge, altitudeLength, distFromEdge) ==
    IF distFromEdgeInvalid(distFromEdge, altitudeLength)
    THEN [lines |-> <<>>, blockerInfo |-> <<>>]
    ELSE edgeParallelIntersect(it, edgeDir,
             add(midpoint(getEdgeVertices(it.tri, it.edge)[1],
                          getEdgeVertices(it.tri, it.edge)[2]),
                 scale(perpToEdge, distFromEdge)))

\* distFromEdge
edgeParallelDistance(it, edgeDir, perpToEdge, altitudeLength) ==
    edgeParallelPlace(it, edgeDir, perpToEdge, altitudeLength,
        IF it.config.positionMode = "from-corner"
        THEN QSub(altitudeLength, it.config.distance)
        ELSE it.config.distance)

\* altitudeLength
edgeParallelAltitude(it, edgeDir, toCorner, perpToEdge) ==
    edgeParallelDistance(it, edgeDir, perpToEdge,
        QAbs(QAdd(QMul(toCorner.x, perpToEdge.x), QMul(toCorner.y, perpToEdge.y))))

\* perpToEdge, turned towards the corner
edgeParallelPerp(it, edgeDir, toCorner, perp0) ==
    edgeParallelAltitude(it, edgeDir, toCorner,
        IF QSign(QAdd(QMul(perp0.x, toCorner.x), QMul(perp0.y, toCorner.y))) < 0
        THEN scale(perp0, QInt(-1))
        ELSE perp0)

\* edgeDir and toCorner
edgeParallelDirections(it, edgeDir, toCorner) ==
    edgeParallelPerp(it, edgeDir, toCorner, perpendicular(edgeDir))

\* the body of the for loop for one entry of edgeConfig
edgeParallelStep(pattern, tri, edgeWeight, edge, corner) ==
    IF pattern.edgeParallel[edge] = null THEN [lines |-> <<>>, blockerInfo |-> <<>>]
    ELSE edgeParallelDirections(
             [config |-> pattern.edgeParallel[edge],
              weight |-> QMul(pattern.baseWeight, pattern.edgeParallel[edge].weightMultiplier),
              tri |-> tri, edgeWeight |-> edgeWeight, edge |-> edge, corner |-> corner],
             normalize(subtract(getEdgeVertices(tri, edge)[2], getEdgeVertices(tri, edge)[1])),
             subtract(getCornerPoint(tri, corner), getEdgeVertices(tri, edge)[1]))

\* what the three iterations pushed, in their order
edgeParallelCollect(s1, s2, s3) ==
    [lines |-> s1.lines \o s2.lines \o s3.lines,
     blockerInfo |-> s1.blockerInfo \o s2.blockerInfo \o s3.blockerInfo]

generateEdgeParallelSegments(pattern, tri, edgeWeight) ==
    edgeParallelCollect(
        edgeParallelStep(pattern, tri, edgeWeight, edgeConfig[1].edge, edgeConfig[1].corner),
        edgeParallelStep(pattern, tri, edgeWeight, edgeConfig[2].edge, edgeConfig[2].corner),
        edgeParallelStep(pattern, tri, edgeWeight, edgeConfig[3].edge, edgeConfig[3].corner))

\* the corners with A and B exchanged
corners_swapped == <<"B", "A", "C">>

corners == <<"A", "B", "C">>

\* find that takes the first blocker, whatever its corner
findBlocker_first(blockers, corner, i) ==
    IF i > Len(blockers) THEN null ELSE blockers[i]

\* blockers.find(b => b.corner === corner); null stands for undefined
RECURSIVE findBlocker(_, _, _)
findBlocker(blockers, corner, i) ==
    IF i > Len(blockers) THEN null
    ELSE IF blockers[i].corner = corner THEN blockers[i]
    ELSE findBlocker(blockers, corner, i + 1)

\* the sum of the weights of the configured corner-to-center lines over their
\* number, or 0 when there is none
centerWeightMean(sum, count) == IF count = 0 THEN Zero ELSE QDiv(sum, QInt(count))

avgCenterWeight(pattern) ==
    centerWeightMean(
        QAdd(QAdd(IF pattern.cornerToCenter["A"] = null THEN Zero
                  ELSE QMul(pattern.baseWeight, pattern.cornerToCenter["A"].weightMultiplier),
                  IF pattern.cornerToCenter["B"] = null THEN Zero
                  ELSE QMul(pattern.baseWeight, pattern.cornerToCenter["B"].weightMultiplier)),
             IF pattern.cornerToCenter["C"] = null THEN Zero
             ELSE QMul(pattern.baseWeight, pattern.cornerToCenter["C"].weightMultiplier)),
        Cardinality({c \in {"A", "B", "C"} : pattern.cornerToCenter[c] # null}))

\* the move of start or of end to the blocker, and lines.push
cornerToCenterCut(config, full, blocker, intersection, dir) ==
    IF intersection = null THEN <<full>>
    ELSE IF config.startSide = "center"
    THEN << [full EXCEPT
               !.start = add(intersection, scale(dir, blocker.halfWidth)),
               !.startIntersectWeight = QMul(blocker.halfWidth, QInt(2))] >>
    ELSE << [full EXCEPT
               !.end = add(intersection, scale(dir, QNeg(blocker.halfWidth))),
               !.endIntersectWeight = QMul(blocker.halfWidth, QInt(2))] >>

\* "Handle blocking": the intersection with the blocker, when there is one
cornerToCenterBlock(config, full, blocker) ==
    IF blocker = null THEN <<full>>
    ELSE cornerToCenterCut(config, full, blocker,
             lineLineIntersection(full.start, full.end, blocker.line.start, blocker.line.end),
             normalize(subtract(full.end, full.start)))

\* the body of the for loop of generateCornerToCenterSegments for one corner;
\* full is the line from cornerPoint to centerPoint
cornerToCenterStep(pattern, tri, blockers, edgeWeight, centerWeight, corner) ==
    IF pattern.cornerToCenter[corner] = null THEN <<>>
    ELSE cornerToCenterBlock(pattern.cornerToCenter[corner],
             [start |-> getCornerPoint(tri, corner), end |-> tri.centroid,
              weight |-> QMul(pattern.baseWeight,
                              pattern.cornerToCenter[corner].weightMultiplier),
              startIntersectWeight |-> edgeWeight,
              endIntersectWeight |-> centerWeight],
             IF pattern.cornerToCenter[corner].blockedBy = "edgeParallel"
             THEN findBlocker(blockers, corner, 1)
             ELSE null)

cornerToCenterLoop(pattern, tri, blockers, edgeWeight, centerWeight) ==
    cornerToCenterStep(pattern, tri, blockers, edgeWeight, centerWeight, corners[1])
    \o cornerToCenterStep(pattern, tri, blockers, edgeWeight, centerWeight, corners[2])
    \o cornerToCenterStep(pattern, tri, blockers, edgeWeight, centerWeight, corners[3])

generateCornerToCenterSegments(pattern, tri, blockers, edgeWeight) ==
    cornerToCenterLoop(pattern, tri, blockers, edgeWeight, avgCenterWeight(pattern))

\* Math.atan2(dy, dx): the angle is carried as the vector it is the direction of
MathAtan2(dy, dx) == [dy |-> dy, dx |-> dx]

\* the radius substituted for one below half the chord adds 0.001 to d/2
MinRadiusPad == QFrac(1, 1000)

\* startAngle, endAngle and the returned object
inwardArcAngles(p1, p2, radius, center) ==
    [center |-> center, radius |-> radius,
     startAngle |-> MathAtan2(QSub(p1.y, center.y), QSub(p1.x, center.x)),
     endAngle |-> MathAtan2(QSub(p2.y, center.y), QSub(p2.x, center.x))]

\* the choice that always takes center1
inwardArcChoose_first(p1, p2, radius, bulgeToward, center1, center2) ==
    inwardArcAngles(p1, p2, radius, center1)

\* dist1, dist2 and center: the center farther from bulgeToward
inwardArcChoose(p1, p2, radius, bulgeToward, center1, center2) ==
    inwardArcAngles(p1, p2, radius,
        IF QGt(distance(center1, bulgeToward), distance(center2, bulgeToward))
        THEN center1 ELSE center2)

\* center1 and center2
inwardArcCenters(p1, p2, radius, bulgeToward, mid, perp, h) ==
    CHOOSE arc \in
        {inwardArcChoose(p1, p2, radius, bulgeToward, center1, center2) :
            center1 \in {add(mid, scale(perp, h))},
            center2 \in {add(mid, scale(perp, QNeg(h)))}} :
        TRUE

\* mid, h, dir and perp; half is d / 2
inwardArcHeight(p1, p2, radius, bulgeToward, half) ==
    CHOOSE arc \in
        {inwardArcCenters(p1, p2, radius, bulgeToward, midpoint(p1, p2), perp, h) :
            perp \in {perpendicular(normalize(subtract(p2, p1)))},
            h \in {QSqrt(QSub(QMul(radius, radius), QMul(half, half)))}} :
        TRUE

\* a radius below half the chord gives no arc
inwardArcRadius_null(p1, p2, radius, bulgeToward, half) ==
    IF QLt(radius, half) THEN null
    ELSE inwardArcHeight(p1, p2, radius, bulgeToward, half)

\* the radius, after "Check if radius is large enough"
inwardArcRadius(p1, p2, radius, bulgeToward, half) ==
    inwardArcHeight(p1, p2,
                    IF QLt(radius, half) THEN QAdd(half, MinRadiusPad) ELSE radius,
                    bulgeToward, half)

calculateInwardArc(p1, p2, radius, bulgeToward) ==
    inwardArcRadius(p1, p2, radius, bulgeToward, QDiv(distance(p1, p2), QInt(2)))

arcEdges ==
    << [edge |-> "AB", corners |-> <<"A", "B">>],
       [edge |-> "BC", corners |-> <<"B", "C">>],
       [edge |-> "CA", corners |-> <<"C", "A">>] >>

\* arcs.push, when arcData is not null
cornerArcPush(weight, arcData) ==
    IF arcData = null THEN <<>>
    ELSE << [center |-> arcData.center, radius |-> arcData.radius,
             startAngle |-> arcData.startAngle, endAngle |-> arcData.endAngle,
             weight |-> weight] >>

\* a step that draws a null slot as an arc of radius 5, of the base weight
cornerArcStep_drawn(pattern, tri, entry) ==
    IF pattern.cornerArcs[entry.edge] = null
    THEN cornerArcPush(pattern.baseWeight,
             calculateInwardArc(getCornerPoint(tri, entry.corners[1]),
                                getCornerPoint(tri, entry.corners[2]),
                                QInt(5), tri.centroid))
    ELSE cornerArcPush(
             QMul(pattern.baseWeight, pattern.cornerArcs[entry.edge].weightMultiplier),
             calculateInwardArc(getCornerPoint(tri, entry.corners[1]),
                                getCornerPoint(tri, entry.corners[2]),
                                pattern.cornerArcs[entry.edge].radius, tri.centroid))

\* the body of the for loop of generateCornerArcs for one table entry
cornerArcStep(pattern, tri, entry) ==
    IF pattern.cornerArcs[entry.edge] = null THEN <<>>
    ELSE cornerArcPush(
             QMul(pattern.baseWeight, pattern.cornerArcs[entry.edge].weightMultiplier),
             calculateInwardArc(getCornerPoint(tri, entry.corners[1]),
                                getCornerPoint(tri, entry.corners[2]),
                                pattern.cornerArcs[entry.edge].radius, tri.centroid))

generateCornerArcs(pattern, tri) ==
    cornerArcStep(pattern, tri, arcEdges[1])
    \o cornerArcStep(pattern, tri, arcEdges[2])
    \o cornerArcStep(pattern, tri, arcEdges[3])

\* result.lines, result.arcs and result.polygons after the three passes
patternSegmentsResult(edgeParallelResult, cornerToCenterLines, arcs) ==
    [lines |-> edgeParallelResult.lines \o cornerToCenterLines,
     arcs |-> arcs,
     polygons |-> <<>>]

\* the corner-to-center pass, given the blockers of the edge-parallel pass
patternSegmentsBlocked(pattern, tri, edgeWeight, edgeParallelResult) ==
    patternSegmentsResult(edgeParallelResult,
        generateCornerToCenterSegments(pattern, tri, edgeParallelResult.blockerInfo,
                                       edgeWeight),
        generateCornerArcs(pattern, tri))

\* the passes on the rotated triangle
patternSegmentsOn(pattern, tri, edgeWeight) ==
    patternSegmentsBlocked(pattern, tri, edgeWeight,
                           generateEdgeParallelSegments(pattern, tri, edgeWeight))

generatePatternSegments(pattern, triangle, rotation, edgeWeight) ==
    patternSegmentsOn(pattern, rotateTriangle(triangle, rotation), edgeWeight)

generateTriangleEdges(tri, weight) ==
    << [start |-> tri.A, end |-> tri.B, weight |-> weight],
       [start |-> tri.B, end |-> tri.C, weight |-> weight],
       [start |-> tri.C, end |-> tri.A, weight |-> weight] >>

-----------------------------------------------------------------------------
(* src/unnamed/part_005: the variant of segments.ts whose edge-parallel     *)
(* segments are polygons clipped to the triangle.  Its functions have the   *)
(* names of those of segments.ts; here they carry the suffix _polygons.     *)
(* generateCornerArcs, calculateInwardArc and generateTriangleEdges are the *)
(* same text in both files.                                                  *)

\* polygons.push and blockerInfo.push; rectPoints are the corners before clipping
edgeParallelPush_polygons(it, rectPoints, clippedPolygon) ==
    IF Len(clippedPolygon) >= 3
    THEN [polygons |-> << [points |-> clippedPolygon, weight |-> it.weight] >>,
          blockerInfo |->
              IF it.config.isBlocker
              THEN << [corner |-> it.corner,
                       outerEdge |-> << rectPoints[1], rectPoints[2] >>,
                       innerEdge |-> << rectPoints[4], rectPoints[3] >>] >>
              ELSE <<>>]
    ELSE [polygons |-> <<>>, blockerInfo |-> <<>>]

\* clippedPolygon
edgeParallelClip_polygons(it, rectPoints) ==
    edgeParallelPush_polygons(it, rectPoints, clipPolygonToTriangle(rectPoints, it.tri))

\* rectPoints
edgeParallelRect_polygons(it, centerLineStart2, centerLineEnd, offsetOuter, offsetInner) ==
    edgeParallelClip_polygons(it,
        << add(centerLineStart2, offsetOuter), add(centerLineEnd, offsetOuter),
           add(centerLineEnd, offsetInner), add(centerLineStart2, offsetInner) >>)

\* centerLineEnd, centerLineStart2, halfWeight and the two offsets
edgeParallelCenterLine_polygons(it, edgeVec, perpDir, edgeLength, centerLineStart) ==
    edgeParallelRect_polygons(it,
        subtract(centerLineStart, scale(edgeVec, edgeLength)),
        add(centerLineStart, scale(edgeVec, QMul(edgeLength, QInt(2)))),
        scale(perpDir, QDiv(it.weight, QInt(2))),
        scale(perpDir, QNeg(QDiv(it.weight, QInt(2)))))

\* centerLineStart
edgeParallelDistance_polygons(it, edgeVec, perpDir, cornerPoint, edgeLength, parallelDistance) ==
    edgeParallelCenterLine_polygons(it, edgeVec, perpDir, edgeLength,
        add(cornerPoint, scale(perpDir, QNeg(parallelDistance))))

\* perpDir turned towards the corner, and parallelDistance
edgeParallelPerp_polygons(it, edgeVec, toCorner, perp0, cornerPoint, edgeMid, edgeLength) ==
    edgeParallelDistance_polygons(it, edgeVec,
        IF QSign(QAdd(QMul(toCorner.x, perp0.x), QMul(toCorner.y, perp0.y))) < 0
        THEN scale(perp0, QInt(-1))
        ELSE perp0,
        cornerPoint, edgeLength,
        IF it.config.positionMode = "from-corner"
        THEN it.config.distance
        ELSE QSub(distance(cornerPoint, edgeMid), it.config.distance))

\* edgeVec, toCorner and perpendicular(edgeVec)
edgeParallelDirections_polygons(it, edgeStart, edgeEnd, cornerPoint, edgeVec, edgeMid) ==
    edgeParallelPerp_polygons(it, edgeVec, subtract(cornerPoint, edgeMid),
                              perpendicular(edgeVec), cornerPoint, edgeMid,
                              distance(edgeStart, edgeEnd))

\* the body of the for loop for edges[i] and nearCorners[i]
edgeParallelStep_polygons(pattern, tri, edge, nearCorner) ==
    IF pattern.edgeParallel[edge] = null THEN [polygons |-> <<>>, blockerInfo |-> <<>>]
    ELSE edgeParallelDirections_polygons(
             [config |-> pattern.edgeParallel[edge],
              weight |-> QMul(pattern.baseWeight, pattern.edgeParallel[edge].weightMultiplier),
              tri |-> tri, edge |-> edge, corner |-> nearCorner],
             getEdgeVertices(tri, edge)[1], getEdgeVertices(tri, edge)[2],
             getCornerPoint(tri, nearCorner),
             normalize(subtract(getEdgeVertices(tri, edge)[2], getEdgeVertices(tri, edge)[1])),
             midpoint(getEdgeVertices(tri, edge)[1], getEdgeVertices(tri, edge)[2]))

edgeParallelCollect_polygons(s1, s2, s3) ==
    [polygons |-> s1.polygons \o s2.polygons \o s3.polygons,
     blockerInfo |-> s1.blockerInfo \o s2.blockerInfo \o s3.blockerInfo]

generateEdgeParallelSegments_polygons(pattern, tri) ==
    edgeParallelCollect_polygons(
        edgeParallelStep_polygons(pattern, tri, "BC", "A"),
        edgeParallelStep_polygons(pattern, tri, "CA", "B"),
        edgeParallelStep_polygons(pattern, tri, "AB", "C"))

\* start or end moved to the intersection, when there is one, and lines.push
cornerToCenterCut_polygons(config, full, intersection) ==
    IF intersection = null THEN <<full>>
    ELSE IF config.startSide = "center"
    THEN << [full EXCEPT !.start = intersection] >>
    ELSE << [full EXCEPT !.end = intersection] >>

\* "Handle blocking": the inner edge of the blocker for startSide 'center', the
\* outer edge otherwise
cornerToCenterBlock_polygons(config, full, blocker) ==
    IF blocker = null THEN <<full>>
    ELSE cornerToCenterCut_polygons(config, full,
             IF config.startSide = "center"
             THEN lineLineIntersection(full.start, full.end,
                                       blocker.innerEdge[1], blocker.innerEdge[2])
             ELSE lineLineIntersection(full.start, full.end,
                                       blocker.outerEdge[1], blocker.outerEdge[2]))

cornerToCenterStep_polygons(pattern, tri, blockers, corner) ==
    IF pattern.cornerToCenter[corner] = null THEN <<>>
    ELSE cornerToCenterBlock_polygons(pattern.cornerToCenter[corner],
             [start |-> getCornerPoint(tri, corner), end |-> tri.centroid,
              weight |-> QMul(pattern.baseWeight,
                              pattern.cornerToCenter[corner].weightMultiplier)],
             IF pattern.cornerToCenter[corner].blockedBy = "edgeParallel"
             THEN findBlocker(blockers, corner, 1)
             ELSE null)

generateCornerToCenterSegments_polygons(pattern, tri, blockers) ==
    cornerToCenterStep_polygons(pattern, tri, blockers, "A")
    \o cornerToCenterStep_polygons(pattern, tri, blockers, "B")
    \o cornerToCenterStep_polygons(pattern, tri, blockers, "C")

patternSegmentsBlocked_polygons(pattern, tri, edgeParallelGeometry) ==
    [lines |-> generateCornerToCenterSegments_polygons(pattern, tri,
                                                       edgeParallelGeometry.blockerInfo),
     arcs |-> generateCornerArcs(pattern, tri),
     polygons |-> edgeParallelGeometry.polygons]

patternSegmentsOn_polygons(pattern, tri) ==
    patternSegmentsBlocked_polygons(pattern, tri,
                                    generateEdgeParallelSegments_polygons(pattern, tri))

generatePatternSegments_polygons(pattern, triangle, rotation) ==
    patternSegmentsOn_polygons(pattern, rotateTriangle(triangle, rotation))

-----------------------------------------------------------------------------
(* src/unnamed/part_004: the compositor.  A string is the sequence of the   *)
(* codes of its characters.                                                 *)

undefined == [undefined |-> TRUE]

\* the floor of q * sqrt3 for q > 0, from an estimate f near it
RECURSIVE FloorSqrt3From(_, _)
FloorSqrt3From(q, f) ==
    IF f < 0 \/ CmpSqrt3(f, q, 0) > 0 THEN FloorSqrt3From(q, f - 1)
    ELSE IF CmpSqrt3(f + 1, q, 0) < 0 THEN FloorSqrt3From(q, f + 1)
    ELSE f

\* the floor of q * sqrt3 for q >= 0; the estimate takes sqrt3 as 1.73205081
FloorSqrt3(q) ==
    IF q = 0 THEN 0
    ELSE FloorSqrt3From(q, q + (q \div 10000) * 7320 + ((q % 10000) * 7320) \div 10000
                              + ((q \div 10000) * 5081) \div 10000)

\* the floor of (a + b*sqrt3)/d for d > 0
FloorOf(a, b, d) ==
    IF b >= 0 THEN (a + FloorSqrt3(b)) \div d
    ELSE (a - FloorSqrt3(-b) - 1) \div d

\* the decimal digits of n >= 0
RECURSIVE Digits(_)
Digits(n) == IF n < 10 THEN <<48 + n>> ELSE Digits(n \div 10) \o <<48 + (n % 10)>>

\* n / 10^4 written with four decimals
Fixed4(n) ==
    Digits(n \div 10000)
    \o <<46, 48 + ((n \div 1000) % 10), 48 + ((n \div 100) % 10), 48 + ((n \div 10) % 10), 48 + (n % 10)>>

\* x.toFixed(4): the magnitude rounded to four decimals, halves upwards, after
\* a minus sign when x < 0
toFixed4(x) ==
    IF QSign(x) < 0
    THEN <<45>> \o Fixed4(FloorOf(-20000 * x[1] + x[3], -20000 * x[2], 2 * x[3]))
    ELSE Fixed4(FloorOf(20000 * x[1] + x[3], 20000 * x[2], 2 * x[3]))

\* s < t for strings
RECURSIVE StrLt(_, _)
StrLt(s, t) ==
    IF t = <<>> THEN FALSE
    ELSE IF s = <<>> THEN TRUE
    ELSE IF Head(s) # Head(t) THEN Head(s) < Head(t)
    ELSE StrLt(Tail(s), Tail(t))

\* `${x.toFixed(4)},${y.toFixed(4)}`
pointKey(p) == toFixed4(p.x) \o <<44>> \o toFixed4(p.y)

\* a key that keeps the order of the two ends
edgeKeyOf_ordered(key1, key2) == key1 \o <<45>> \o key2

edgeKeyOf(key1, key2) ==
    IF StrLt(key1, key2) THEN key1 \o <<45>> \o key2 ELSE key2 \o <<45>> \o key1

edgeToKey(p1, p2) == edgeKeyOf(pointKey(p1), pointKey(p2))

\* patterns.find(p => p.id === id), from index i on
RECURSIVE findPattern(_, _, _)
findPattern(patterns, id, i) ==
    IF i > Len(patterns) THEN undefined
    ELSE IF patterns[i].id = id THEN patterns[i]
    ELSE findPattern(patterns, id, i + 1)

\* "Check if line is completely outside", the endpoint tests, and the clip
lineIntersectsRect(p1, p2, minX, minY, maxX, maxY) ==
    IF (QLt(p1.x, minX) /\ QLt(p2.x, minX)) \/ (QGt(p1.x, maxX) /\ QGt(p2.x, maxX)) THEN FALSE
    ELSE IF (QLt(p1.y, minY) /\ QLt(p2.y, minY)) \/ (QGt(p1.y, maxY) /\ QGt(p2.y, maxY))
    THEN FALSE
    ELSE IF QGe(p1.x, minX) /\ QLe(p1.x, maxX) /\ QGe(p1.y, minY) /\ QLe(p1.y, maxY) THEN TRUE
    ELSE IF QGe(p2.x, minX) /\ QLe(p2.x, maxX) /\ QGe(p2.y, minY) /\ QLe(p2.y, maxY) THEN TRUE
    ELSE clipLineToRect(p1, p2, minX, minY, maxX, maxY) # null

\* the compositor's own pointInTriangle has the text of that of triangle.ts
triangleIntersectsRect(tri, minX, minY, maxX, maxY) ==
    \/ \E p \in {tri.A, tri.B, tri.C} :
           QGe(p.x, minX) /\ QLe(p.x, maxX) /\ QGe(p.y, minY) /\ QLe(p.y, maxY)
    \/ pointInTriangle(Pt(QDiv(QAdd(minX, maxX), QInt(2)), QDiv(QAdd(minY, maxY), QInt(2))),
                       tri)
    \/ lineIntersectsRect(tri.A, tri.B, minX, minY, maxX, maxY)
    \/ lineIntersectsRect(tri.B, tri.C, minX, minY, maxX, maxY)
    \/ lineIntersectsRect(tri.C, tri.A, minX, minY, maxX, maxY)

\* the margin of the bounds check of an arc is its radius plus 10
ArcMargin == QInt(10)

\* result.lines.push({ ...clipped, weight: line.weight }) when clipped is not null
pushClipped(lines, clipped, weight) ==
    IF clipped = null THEN lines
    ELSE Append(lines, [start |-> clipped.start, end |-> clipped.end, weight |-> weight])

\* "Clip lines", from line i on
RECURSIVE clipAddLines(_, _, _, _)
clipAddLines(lines, out, panel, i) ==
    IF i > Len(lines) THEN out
    ELSE clipAddLines(lines,
             pushClipped(out,
                         clipLineToRect(lines[i].start, lines[i].end, Zero, Zero,
                                        panel.widthMm, panel.heightMm),
                         lines[i].weight),
             panel, i + 1)

pushPolygon(polygons, clipped, weight) ==
    IF Len(clipped) >= 3 THEN Append(polygons, [points |-> clipped, weight |-> weight])
    ELSE polygons

\* "Clip polygons", from polygon i on
RECURSIVE clipAddPolygons(_, _, _, _)
clipAddPolygons(polygons, out, panel, i) ==
    IF i > Len(polygons) THEN out
    ELSE clipAddPolygons(polygons,
             pushPolygon(out,
                         clipPolygonToRect(polygons[i].points, Zero, Zero,
                                           panel.widthMm, panel.heightMm),
                         polygons[i].weight),
             panel, i + 1)

arcNearPanel(arc, panel, margin) ==
    /\ QGe(arc.center.x, QNeg(margin))
    /\ QLe(arc.center.x, QAdd(panel.widthMm, margin))
    /\ QGe(arc.center.y, QNeg(margin))
    /\ QLe(arc.center.y, QAdd(panel.heightMm, margin))

\* "Arcs", from arc i on
RECURSIVE addArcs(_, _, _, _)
addArcs(arcs, out, panel, i) ==
    IF i > Len(arcs) THEN out
    ELSE addArcs(arcs,
             IF arcNearPanel(arcs[i], panel, QAdd(arcs[i].radius, ArcMargin))
             THEN Append(out, arcs[i]) ELSE out,
             panel, i + 1)

\* the result after the segments were clipped and added
clipAndAddSegments(segments, result, panel) ==
    [lines |-> clipAddLines(segments.lines, result.lines, panel, 1),
     arcs |-> addArcs(segments.arcs, result.arcs, panel, 1),
     polygons |-> clipAddPolygons(segments.polygons, result.polygons, panel, 1)]

\* generatePatternSegments(pattern, tri, rotation) of the variant the build has:
\* the line variant takes its default edgeWeight of 0.8
generatePatternSegments_of(variant, pattern, tri, rotation) ==
    IF variant = "lines"
    THEN generatePatternSegments(pattern, tri, rotation, QFrac(4, 5))
    ELSE generatePatternSegments_polygons(pattern, tri, rotation)

\* an edge whose key is not yet drawn: the key is added, the clipped edge pushed
panelEdgeDraw(edge, acc, panel, edgeKey) ==
    IF edgeKey \in acc.drawnEdges THEN acc
    ELSE [result |->
              [acc.result EXCEPT !.lines =
                  pushClipped(acc.result.lines,
                              clipLineToRect(edge.start, edge.end, Zero, Zero,
                                             panel.widthMm, panel.heightMm),
                              edge.weight)],
          drawnEdges |-> acc.drawnEdges \cup {edgeKey}]

panelEdge(edge, acc, panel) == panelEdgeDraw(edge, acc, panel, edgeToKey(edge.start, edge.end))

\* "Generate triangle edges (if not already drawn)"
panelEdges(edgeLines, acc, panel) ==
    panelEdge(edgeLines[3], panelEdge(edgeLines[2], panelEdge(edgeLines[1], acc, panel), panel),
              panel)

\* the segments of the cell are clipped and added, then its edges
panelCellDraw(panel, variant, acc, tri, pattern, rotation) ==
    panelEdges(generateTriangleEdges(tri, pattern.baseWeight),
               [result |-> clipAndAddSegments(
                               generatePatternSegments_of(variant, pattern, tri, rotation),
                               acc.result, panel),
                drawnEdges |-> acc.drawnEdges],
               panel)

\* patterns.find(...) || defaultPattern
patternOr(found, defaultPattern) == IF found = undefined THEN defaultPattern ELSE found

\* "Get pattern for this cell"
panelCellPattern(panel, patterns, defaultPattern, variant, acc, tri, cellKey) ==
    IF cellKey \in DOMAIN panel.cells
    THEN panelCellDraw(panel, variant, acc, tri,
                       patternOr(findPattern(patterns, panel.cells[cellKey].patternId, 1),
                                 defaultPattern),
                       panel.cells[cellKey].rotation)
    ELSE panelCellDraw(panel, variant, acc, tri, defaultPattern, 0)

\* the body of the two for loops for one cell
panelCellAt(panel, patterns, defaultPattern, variant, acc, row, col, tri) ==
    IF ~triangleIntersectsRect(tri, Zero, Zero, panel.widthMm, panel.heightMm) THEN acc
    ELSE panelCellPattern(panel, patterns, defaultPattern, variant, acc, tri, <<row, col>>)

\* the inner for loop of one row, from column col on; next is the accumulator after
\* the cell, a value before the loop goes on
RECURSIVE panelRow(_, _, _, _, _, _, _, _)
panelRow(panel, patterns, defaultPattern, variant, dims, row, col, acc) ==
    IF col >= dims.cols THEN acc
    ELSE CHOOSE result \in
             {panelRow(panel, patterns, defaultPattern, variant, dims, row, col + 1, next) :
                 next \in {panelCellAt(panel, patterns, defaultPattern, variant, acc, row, col,
                               getTriangleForCell(row, col, panel.triangleSizeMm, Zero, Zero))}} :
             TRUE

\* the outer for loop, from row on; next is the accumulator after the row
RECURSIVE panelLoop(_, _, _, _, _, _, _)
panelLoop(panel, patterns, defaultPattern, variant, dims, row, acc) ==
    IF row >= dims.rows THEN acc.result
    ELSE CHOOSE result \in
             {panelLoop(panel, patterns, defaultPattern, variant, dims, row + 1, next) :
                 next \in {panelRow(panel, patterns, defaultPattern, variant, dims, row, 0,
                                    acc)}} :
             TRUE

EmptySegments == [lines |-> <<>>, arcs |-> <<>>, polygons |-> <<>>]

\* a compositor that takes the first pattern of the list for a missing default
panelGeometryWith_first(panel, patterns, variant, defaultPattern) ==
    panelLoop(panel, patterns,
              IF defaultPattern = undefined THEN patterns[1] ELSE defaultPattern, variant,
              calculateGridDimensions(panel.widthMm, panel.heightMm, panel.triangleSizeMm),
              0, [result |-> EmptySegments, drawnEdges |-> {}])

panelGeometryWith(panel, patterns, variant, defaultPattern) ==
    IF defaultPattern = undefined THEN EmptySegments
    ELSE panelLoop(panel, patterns, defaultPattern, variant,
                   calculateGridDimensions(panel.widthMm, panel.heightMm,
                                           panel.triangleSizeMm),
                   0, [result |-> EmptySegments, drawnEdges |-> {}])

\* generatePanelGeometry(panel, patterns); variant names the generatePatternSegments
\* of the build
generatePanelGeometry(panel, patterns, variant) ==
    panelGeometryWith(panel, patterns, variant,
                      findPattern(patterns, panel.defaultPatternId, 1))

\* "Add edges (deduplicated)" for one edge
tiledEdgeAdd(edge, acc, key) ==
    IF key \in acc.drawnEdges THEN acc
    ELSE [acc EXCEPT !.allEdges = Append(@, edge), !.drawnEdges = @ \cup {key}]

tiledEdge(edge, acc) == tiledEdgeAdd(edge, acc, edgeToKey(edge.start, edge.end))

tiledEdges(edges, acc) == tiledEdge(edges[3], tiledEdge(edges[2], tiledEdge(edges[1], acc)))

\* the body of the loops of generateTiledPreview for one cell
tiledCell(pattern, acc, tri, segments) ==
    tiledEdges(generateTriangleEdges(tri, pattern.baseWeight),
               [triangles |-> Append(acc.triangles, tri),
                allSegments |->
                    [lines |-> acc.allSegments.lines \o segments.lines,
                     arcs |-> acc.allSegments.arcs \o segments.arcs,
                     polygons |-> acc.allSegments.polygons \o segments.polygons],
                allEdges |-> acc.allEdges,
                drawnEdges |-> acc.drawnEdges])

TiledRows == 3
TiledCols == 4

\* the inner for loop of one row, from column col on
RECURSIVE tiledRow(_, _, _, _, _, _)
tiledRow(pattern, triangleSize, variant, row, col, acc) ==
    IF col >= TiledCols THEN acc
    ELSE CHOOSE result \in
             {tiledRow(pattern, triangleSize, variant, row, col + 1, next) :
                 next \in {tiledCell(pattern, acc,
                               getTriangleForCell(row, col, triangleSize, Zero, Zero),
                               generatePatternSegments_of(variant, pattern,
                                   getTriangleForCell(row, col, triangleSize, Zero, Zero), 0))}} :
             TRUE

\* the outer for loop, from row on
RECURSIVE tiledLoop(_, _, _, _, _)
tiledLoop(pattern, triangleSize, variant, row, acc) ==
    IF row >= TiledRows
    THEN [triangles |-> acc.triangles, allSegments |-> acc.allSegments,
          allEdges |-> acc.allEdges]
    ELSE CHOOSE result \in
             {tiledLoop(pattern, triangleSize, variant, row + 1, next) :
                 next \in {tiledRow(pattern, triangleSize, variant, row, 0, acc)}} :
             TRUE

generateTiledPreview(pattern, triangleSize, variant) ==
    tiledLoop(pattern, triangleSize, variant, 0,
              [triangles |-> <<>>, allSegments |-> EmptySegments, allEdges |-> <<>>,
               drawnEdges |-> {}])

-----------------------------------------------------------------------------
(* Inputs shared by the specifications                                     *)

MaxRow == 2
MaxCol == 3

\* triangle edge lengths (mm)
EdgeLengths == {QInt(2), QInt(5)}

\* grid origins (mm)
Origins == {Pt(Zero, Zero), Pt(QInt(-1), QFrac(1, 2))}

GridTriangles ==
    {getTriangleForCell(row, col, e, Zero, Zero) :
        row \in 0..MaxRow, col \in 0..MaxCol, e \in EdgeLengths}

\* triangles that are not equilateral, with the centroid field as centroid() gives it
ScaleneTriangles ==
    {[A |-> a, B |-> b, C |-> c, centroid |-> centroid(a, b, c), isUpPointing |-> up] :
        a \in {Pt(Zero, Zero)}, b \in {Pt(QInt(4), Zero), Pt(QInt(1), QInt(1))},
        c \in {Pt(Zero, QInt(3))}, up \in BOOLEAN}

Rotations == {0, 120, 240}

-----------------------------------------------------------------------------
(* SpecRotate: rotateTriangle applied repeatedly to one triangle           *)

MaxRotations == 3

InitRotate ==
    /\ call \in {[fn |-> "rotateTriangle", tri |-> t, applied |-> <<>>] :
                    t \in GridTriangles \cup ScaleneTriangles}
    /\ ret = call.tri

\* tri = rotateTriangle(tri, degrees) on the triangle returned last
RotateTriangle(degrees) ==
    /\ call.fn = "rotateTriangle"
    /\ Len(call.applied) < MaxRotations
    /\ ret' = rotateTriangle(ret, degrees)
    /\ call' = [call EXCEPT !.applied = Append(@, degrees)]

NextRotate == \E degrees \in Rotations : RotateTriangle(degrees)

SpecRotate == InitRotate /\ [][NextRotate]_vars

RECURSIVE SumSeq(_)
SumSeq(q) == IF q = <<>> THEN 0 ELSE Head(q) + SumSeq(Tail(q))

Vertices(tri) == <<tri.A, tri.B, tri.C>>

\* C10: rotateTriangle keeps centroid and isUpPointing for every angle; rotations
\* that add up to a full turn (120 three times, 120 then 240) put every vertex back;
\* on an equilateral grid-cell triangle a net 120 or 240 rotation permutes A, B, C
\* cyclically, so the rotated triangle occupies the same cell.
C10_RotationClosure ==
    call.fn = "rotateTriangle" =>
        /\ ret.centroid = call.tri.centroid
        /\ ret.isUpPointing = call.tri.isUpPointing
        /\ (SumSeq(call.applied) % 360 = 0 => Vertices(ret) = Vertices(call.tri))
        /\ (call.tri \in GridTriangles /\ SumSeq(call.applied) % 360 # 0 =>
               Vertices(ret) \in {<<call.tri.B, call.tri.C, call.tri.A>>,
                                  <<call.tri.C, call.tri.A, call.tri.B>>})

C10_Witness ==
    /\ call.fn = "rotateTriangle"
    /\ call.applied = <<120, 120, 120>>
    /\ call.tri \in GridTriangles
    /\ Vertices(ret) = Vertices(call.tri)

-----------------------------------------------------------------------------
(* SpecGrid: the grid functions of triangle.ts, each called once           *)

\* sample points (mm) around the cells 0..MaxRow x 0..MaxCol of a grid of edge e:
\* the quarter-edge / half-height lattice (vertices, edge points, interiors) and
\* whole-millimetre points
SamplePoints(e) ==
    {Pt(QMul(QFrac(i, 4), e), QMul(QFrac(j, 2), triangleHeight(e))) :
        i \in -1..(2 * MaxCol + 4), j \in -1..(2 * MaxRow + 2)}
    \cup {Pt(QInt(i), QInt(j)) : i \in -1..(MaxCol + 1), j \in 0..(MaxRow + 1)}

\* panel sizes (mm)
PanelSizes == {QInt(3), QInt(5), QMul(QInt(2), Sqrt3)}

GridCalls ==
    {[fn |-> "getTriangleForCell", row |-> row, col |-> col, edgeLength |-> e,
      originX |-> o.x, originY |-> o.y] :
        row \in -1..MaxRow, col \in -1..MaxCol, e \in EdgeLengths, o \in Origins}
    \cup
    {[fn |-> "findCellAtPoint", point |-> p, triangleSizeMm |-> eo[1],
      originX |-> eo[2].x, originY |-> eo[2].y] :
        eo \in EdgeLengths \X Origins, p \in UNION {SamplePoints(e) : e \in EdgeLengths}}
    \cup
    {[fn |-> "calculateGridDimensions", panelWidthMm |-> w, panelHeightMm |-> h,
      triangleSizeMm |-> e] :
        w \in PanelSizes, h \in PanelSizes, e \in EdgeLengths}

InitGrid ==
    /\ call \in GridCalls
    /\ ret = NoValue

GetTriangleForCell ==
    /\ call.fn = "getTriangleForCell"
    /\ ret = NoValue
    /\ ret' = getTriangleForCell(call.row, call.col, call.edgeLength,
                                 call.originX, call.originY)
    /\ UNCHANGED call

FindCellAtPoint ==
    /\ call.fn = "findCellAtPoint"
    /\ ret = NoValue
    /\ ret' = findCellAtPoint(call.point, call.triangleSizeMm, call.originX, call.originY)
    /\ UNCHANGED call

CalculateGridDimensions ==
    /\ call.fn = "calculateGridDimensions"
    /\ ret = NoValue
    /\ ret' = calculateGridDimensions(call.panelWidthMm, call.panelHeightMm,
                                      call.triangleSizeMm)
    /\ UNCHANGED call

NextGrid ==
    \/ GetTriangleForCell
    \/ FindCellAtPoint
    \/ CalculateGridDimensions

SpecGrid == InitGrid /\ [][NextGrid]_vars

Returned(fn) == call.fn = fn /\ ret # NoValue

\* sample points of the panel rectangle [0, w] x [0, h]: corners, edges, interior
PanelPoints(w, h) ==
    {Pt(QMul(QFrac(i, 4), w), QMul(QFrac(j, 4), h)) : i \in 0..4, j \in 0..4}

CoveredByGrid(p, dims, e) ==
    \E row \in 0..(dims.rows - 1), col \in 0..(dims.cols - 1) :
        pointInTriangle(p, getTriangleForCell(row, col, e, Zero, Zero))

\* C7: the grid of calculateGridDimensions over-covers the panel: every point of
\* [0, widthMm] x [0, heightMm], the left edge x = 0 included, lies in the closed
\* triangle of some cell (row, col) with 0 <= row < rows and 0 <= col < cols.
C7_GridCoversPanel ==
    Returned("calculateGridDimensions") =>
        \A p \in PanelPoints(call.panelWidthMm, call.panelHeightMm) :
            CoveredByGrid(p, ret, call.triangleSizeMm)

\* the cells a sample point can lie in
ProbeCells == (0..(MaxRow + 2)) \X (0..(MaxCol + 4))

CellContains(rc, c) ==
    pointInTriangle(c.point,
        getTriangleForCell(rc[1], rc[2], c.triangleSizeMm, c.originX, c.originY))

\* the 3x3 window of findCellAtPoint around the estimate, without negative cells
ProbeWindow(c) ==
    LET approxRow == QFloor(QDiv(QSub(c.point.y, c.originY), triangleHeight(c.triangleSizeMm)))
        approxCol == QFloor(QDiv(QSub(c.point.x, c.originX), QDiv(c.triangleSizeMm, QInt(2))))
    IN  {rc \in ((approxRow - 1)..(approxRow + 1)) \X ((approxCol - 1)..(approxCol + 1)) :
            rc[1] >= 0 /\ rc[2] >= 0}

ScanBefore(a, b) == a[1] < b[1] \/ (a[1] = b[1] /\ a[2] < b[2])

\* C8: findCellAtPoint is sound and complete: a returned cell is non-negative and
\* holds the point (boundary inclusive) and is the first hit of the window in
\* row-then-column order; null is returned only if no non-negative cell holds the point.
C8_FindCellSoundComplete ==
    Returned("findCellAtPoint") =>
        IF ret = null
        THEN \A rc \in ProbeCells : ~CellContains(rc, call)
        ELSE /\ ret.row >= 0 /\ ret.col >= 0
             /\ CellContains(<<ret.row, ret.col>>, call)
             /\ <<ret.row, ret.col>> \in ProbeWindow(call)
             /\ \A rc \in ProbeWindow(call) :
                    ScanBefore(rc, <<ret.row, ret.col>>) => ~CellContains(rc, call)

\* a point on the right edge of its cell, found in the neighbour of the estimate
C8_Witness ==
    /\ Returned("findCellAtPoint")
    /\ ret # null
    /\ <<ret.row, ret.col>> # <<QFloor(QDiv(QSub(call.point.y, call.originY),
                                            triangleHeight(call.triangleSizeMm))),
                                QFloor(QDiv(QSub(call.point.x, call.originX),
                                            QDiv(call.triangleSizeMm, QInt(2))))>>

SharedVertices(t, u) == {t.A, t.B, t.C} \cap {u.A, u.B, u.C}

\* C9: a cell and its right neighbour (row, col+1) point opposite ways and share
\* exactly two vertices; the cell and the vertical neighbour across its horizontal
\* edge BC share exactly that edge's two vertices.
C9_NeighboursShareEdge ==
    Returned("getTriangleForCell") =>
        LET right == getTriangleForCell(call.row, call.col + 1, call.edgeLength,
                                        call.originX, call.originY)
            vrow == IF ret.isUpPointing THEN call.row + 1 ELSE call.row - 1
            vert == getTriangleForCell(vrow, call.col, call.edgeLength,
                                       call.originX, call.originY)
        IN  /\ right.isUpPointing # ret.isUpPointing
            /\ Cardinality(SharedVertices(ret, right)) = 2
            /\ vert.isUpPointing # ret.isUpPointing
            /\ ret.B.y = ret.C.y
            /\ SharedVertices(ret, vert) = {ret.B, ret.C}

C9_Witness ==
    /\ Returned("getTriangleForCell")
    /\ ~ret.isUpPointing
    /\ call.row = 1 /\ call.col = 2
    /\ SharedVertices(ret, getTriangleForCell(0, 2, call.edgeLength,
                                              call.originX, call.originY)) = {ret.B, ret.C}

-----------------------------------------------------------------------------
(* SpecClip: the clipping functions of clipping.ts                         *)

\* how far a shape is shifted, in mm, in x and in y
MaxShift == 5

IPt(i, j) == Pt(QInt(i), QInt(j))

\* polygon shapes (mm): convex ones in both windings, an L, and a U whose notch
\* is wide enough to hold a rectangle
Shapes ==
    { << IPt(0, 0), IPt(1, 0), IPt(0, 1) >>,
      << IPt(0, 0), IPt(0, 1), IPt(1, 0) >>,
      << IPt(0, 0), IPt(2, 0), IPt(2, 1), IPt(0, 1) >>,
      << IPt(0, 0), IPt(2, 0), IPt(2, 1), IPt(1, 1), IPt(1, 2), IPt(0, 2) >>,
      << IPt(-2, -2), IPt(4, -2), IPt(4, 4), IPt(3, 4), IPt(3, -1), IPt(-1, -1),
         IPt(-1, 4), IPt(-2, 4) >> }

Shift(poly, by) == [i \in 1..Len(poly) |-> add(poly[i], by)]

Rect(x0, y0, x1, y1) ==
    [minX |-> QInt(x0), minY |-> QInt(y0), maxX |-> QInt(x1), maxY |-> QInt(y1)]

Rects == {Rect(0, 0, 2, 2), Rect(0, 0, 4, 3)}

\* the rectangles lines are clipped to: the panel, one with room on every side,
\* one of no height and a point
LineRects == {Rect(0, 0, 4, 3), Rect(1, 1, 3, 3), Rect(0, 1, 4, 1), Rect(2, 1, 2, 1)}

\* polygons around a triangle: the triangle shrunk about its centroid by num/den
\* (inside for num < den), in both windings, then moved by a multiple of A - B
Shrunk(tri, num, den, k, flip) ==
    LET f == QFrac(num, den)
        by == scale(subtract(tri.A, tri.B), QInt(k))
        v(p) == add(add(tri.centroid, scale(subtract(p, tri.centroid), f)), by)
    IN  IF flip THEN << v(tri.A), v(tri.C), v(tri.B) >>
        ELSE << v(tri.A), v(tri.B), v(tri.C) >>

ClipCalls ==
    {[fn |-> "clipPolygonToRect", polygon |-> Shift(sh, IPt(dx, dy)), rect |-> r] :
        sh \in Shapes, dx \in -1..MaxShift, dy \in 0..2, r \in Rects}
    \cup
    {[fn |-> "clipLineToRect", start |-> IPt(x0, y0), end |-> IPt(x1, y1), rect |-> r] :
        x0 \in -1..MaxShift, y0 \in -1..4, x1 \in -1..MaxShift, y1 \in -1..4,
        r \in LineRects}
    \cup
    {[fn |-> "clipPolygonToTriangle",
      tri |-> rotateTriangle(getTriangleForCell(row, col, e, Zero, Zero), rotation),
      polygon |-> Shrunk(rotateTriangle(getTriangleForCell(row, col, e, Zero, Zero), rotation),
                         num, 4, k, flip)] :
        row \in 0..1, col \in 0..1, e \in EdgeLengths, rotation \in Rotations,
        num \in 1..MaxShift, k \in 0..2, flip \in BOOLEAN}

InitClip ==
    /\ call \in ClipCalls
    /\ ret = NoValue

ClipPolygonToTriangle ==
    /\ call.fn = "clipPolygonToTriangle"
    /\ ret = NoValue
    /\ ret' = clipPolygonToTriangle(call.polygon, call.tri)
    /\ UNCHANGED call

ClipPolygonToRect ==
    /\ call.fn = "clipPolygonToRect"
    /\ ret = NoValue
    /\ ret' = clipPolygonToRect(call.polygon, call.rect.minX, call.rect.minY,
                                call.rect.maxX, call.rect.maxY)
    /\ UNCHANGED call

ClipLineToRect ==
    /\ call.fn = "clipLineToRect"
    /\ ret = NoValue
    /\ ret' = clipLineToRect(call.start, call.end, call.rect.minX, call.rect.minY,
                             call.rect.maxX, call.rect.maxY)
    /\ UNCHANGED call

NextClip ==
    \/ ClipPolygonToTriangle
    \/ ClipPolygonToRect
    \/ ClipLineToRect

SpecClip == InitClip /\ [][NextClip]_vars

\* which side of the line a -> b the point p lies on: 1, 0 or -1
Orient(a, b, p) ==
    QSign(QSub(QMul(QSub(b.x, a.x), QSub(p.y, a.y)),
               QMul(QSub(b.y, a.y), QSub(p.x, a.x))))

PointInRect(p, r) ==
    /\ QLe(r.minX, p.x) /\ QLe(p.x, r.maxX)
    /\ QLe(r.minY, p.y) /\ QLe(p.y, r.maxY)

RectCorners(r) ==
    {Pt(r.minX, r.minY), Pt(r.maxX, r.minY), Pt(r.maxX, r.maxY), Pt(r.minX, r.maxY)}

\* p lies on the closed segment s -> e
OnSegment(p, s, e) ==
    /\ Orient(s, e, p) = 0
    /\ \/ QLe(s.x, p.x) /\ QLe(p.x, e.x)
       \/ QLe(e.x, p.x) /\ QLe(p.x, s.x)
    /\ \/ QLe(s.y, p.y) /\ QLe(p.y, e.y)
       \/ QLe(e.y, p.y) /\ QLe(p.y, s.y)

\* the closed segment s -> e and the closed rectangle have a common point: no
\* axis separates them (the two axes of the rectangle, the normal of the segment)
SegmentMeetsRect(s, e, r) ==
    /\ ~(QLt(s.x, r.minX) /\ QLt(e.x, r.minX))
    /\ ~(QGt(s.x, r.maxX) /\ QGt(e.x, r.maxX))
    /\ ~(QLt(s.y, r.minY) /\ QLt(e.y, r.minY))
    /\ ~(QGt(s.y, r.maxY) /\ QGt(e.y, r.maxY))
    /\ ~(\A c \in RectCorners(r) : Orient(s, e, c) > 0)
    /\ ~(\A c \in RectCorners(r) : Orient(s, e, c) < 0)

Range(seq) == {seq[i] : i \in 1..Len(seq)}

Edges(poly) == {<< poly[i], poly[(i % Len(poly)) + 1] >> : i \in 1..Len(poly)}

\* p is strictly inside the polygon: a ray from p towards +x crosses the
\* boundary an odd number of times (p is not on the boundary)
StrictlyInsidePolygon(p, poly) ==
    LET crossing(ed) ==
            /\ QGt(ed[1].y, p.y) # QGt(ed[2].y, p.y)
            /\ Orient(ed[1], ed[2], p) = (IF QGt(ed[2].y, ed[1].y) THEN 1 ELSE -1)
    IN  Cardinality({ed \in Edges(poly) : crossing(ed)}) % 2 = 1

\* the region of the polygon and the closed rectangle have no common point
PolygonMissesRect(poly, r) ==
    /\ \A ed \in Edges(poly) : ~SegmentMeetsRect(ed[1], ed[2], r)
    /\ ~StrictlyInsidePolygon(Pt(r.minX, r.minY), poly)

\* p is strictly inside the triangle, whichever way its vertices wind
StrictlyInTriangle(p, tri) ==
    LET o == {Orient(tri.A, tri.B, p), Orient(tri.B, tri.C, p), Orient(tri.C, tri.A, p)}
    IN  o = {1} \/ o = {-1}

\* two convex polygons have no common point: an edge of one separates them
ConvexDisjoint(P, Q) ==
    LET separates(X, Y) ==
            \E ed \in Edges(X) : \E sd \in {1, -1} :
                /\ \A v \in Range(X) : Orient(ed[1], ed[2], v) # sd
                /\ \A v \in Range(Y) : Orient(ed[1], ed[2], v) = sd
    IN  separates(P, Q) \/ separates(Q, P)

TriPoly(tri) == << tri.A, tri.B, tri.C >>

\* C4: clipPolygonToTriangle takes the interior of the cell as the inside, for
\* up-pointing, down-pointing and rotated cells: a polygon lying strictly inside
\* the cell is returned with the same vertices, and a polygon lying strictly
\* outside (no point in common) comes back with fewer than 3 points.
C4_TriangleClipKeepsInterior ==
    Returned("clipPolygonToTriangle") =>
        /\ (\A v \in Range(call.polygon) : StrictlyInTriangle(v, call.tri))
               => ret = call.polygon
        /\ ConvexDisjoint(call.polygon, TriPoly(call.tri)) => Len(ret) < 3

\* C5: clipPolygonToRect returns a polygon (convex or concave) whose vertices
\* are all in the rectangle unchanged, clipping that result again changes
\* nothing, and a polygon with no point in common with the rectangle comes back
\* with fewer than 3 points.
C5_RectClipInsideAndOutside ==
    Returned("clipPolygonToRect") =>
        /\ (\A v \in Range(call.polygon) : PointInRect(v, call.rect))
               => /\ ret = call.polygon
                  /\ clipPolygonToRect(ret, call.rect.minX, call.rect.minY,
                                       call.rect.maxX, call.rect.maxY) = ret
        /\ PolygonMissesRect(call.polygon, call.rect) => Len(ret) < 3

\* C6: clipLineToRect returns null exactly when the segment has no point in the
\* closed rectangle; otherwise both returned end points are in the rectangle
\* and on the given segment, and a segment with both ends in the rectangle is
\* returned as it was given.
C6_LineClipExact ==
    Returned("clipLineToRect") =>
        /\ (ret = null) <=> ~SegmentMeetsRect(call.start, call.end, call.rect)
        /\ ret # null =>
               /\ PointInRect(ret.start, call.rect) /\ PointInRect(ret.end, call.rect)
               /\ OnSegment(ret.start, call.start, call.end)
               /\ OnSegment(ret.end, call.start, call.end)
        /\ (PointInRect(call.start, call.rect) /\ PointInRect(call.end, call.rect))
               => ret = [start |-> call.start, end |-> call.end]

\* a segment that crosses the rectangle with both ends outside of it, clipped at
\* two different sides
C6_Witness ==
    /\ Returned("clipLineToRect")
    /\ ret # null
    /\ ~PointInRect(call.start, call.rect) /\ ~PointInRect(call.end, call.rect)
    /\ ret.start # ret.end
    /\ ret.start.x # ret.end.x /\ ret.start.y # ret.end.y

-----------------------------------------------------------------------------
(* SpecSegments: generatePatternSegments on one cell                       *)

\* distances are taken at the multiples 0..MaxDistStep of a sixth of the altitude
MaxDistStep == 7

SegEdgeLength == QInt(6)

\* a sixth of the altitude
DistStep == QMul(QFrac(1, 6), triangleHeight(SegEdgeLength))

\* distances from the edge: beyond the edge, on it, inside, on the corner,
\* beyond the corner
Distances == {QMul(QInt(k), DistStep) : k \in -1..MaxDistStep}

\* distances from the corner: on the corner, inside, on the edge, beyond it
CornerDistances == {QMul(QInt(k), DistStep) : k \in {0, 2, 6, MaxDistStep}}

\* distances in whole and half millimetres
MmDistances == {QFrac(-1, 2), QFrac(5, 2)}

EdgeParallelConfigs(fromEdge, fromCorner) ==
    {[positionMode |-> "from-edge", distance |-> d, weightMultiplier |-> w[1],
      isBlocker |-> w[2]] :
        d \in fromEdge,
        w \in {<<QInt(1), FALSE>>, <<QInt(1), TRUE>>, <<QFrac(3, 2), TRUE>>}}
    \cup
    {[positionMode |-> "from-corner", distance |-> d, weightMultiplier |-> w[1],
      isBlocker |-> w[2]] :
        d \in fromCorner, w \in {<<QInt(1), FALSE>>, <<QFrac(3, 2), TRUE>>}}

\* blockedBy: null of the code is the string "null" here
CornerToCenterConfigs ==
    {[weightMultiplier |-> QInt(1), blockedBy |-> b, startSide |-> s] :
        b \in {"edgeParallel", "null"}, s \in {"corner", "center"}}

OtherEdgeParallel ==
    [positionMode |-> "from-edge", distance |-> QInt(1),
     weightMultiplier |-> QInt(1), isBlocker |-> TRUE]

OtherCornerToCenter ==
    [weightMultiplier |-> QInt(2), blockedBy |-> "edgeParallel", startSide |-> "corner"]

ArcConfig == [radius |-> SegEdgeLength, weightMultiplier |-> QInt(1)]

\* what the other two corners and the arcs are given: nothing, everything,
\* edge-parallel blockers only, or lines and arcs only
OtherPresets ==
    { [edgeParallel |-> null, cornerToCenter |-> null, cornerArcs |-> null],
      [edgeParallel |-> OtherEdgeParallel, cornerToCenter |-> OtherCornerToCenter,
       cornerArcs |-> ArcConfig],
      [edgeParallel |-> OtherEdgeParallel, cornerToCenter |-> null, cornerArcs |-> null],
      [edgeParallel |-> null, cornerToCenter |-> OtherCornerToCenter,
       cornerArcs |-> ArcConfig] }

\* the presets of the polygon variant: nothing, or everything
OtherPresets_polygons == {o \in OtherPresets : (o.edgeParallel = null) = (o.cornerToCenter = null)}

\* a pattern with the configs ep and c2c on the focus corner and its opposite
\* edge, and those of the preset on the other two
MkPattern(baseWeight, focus, ep, c2c, other) ==
    [baseWeight |-> baseWeight,
     cornerToCenter |->
         [c \in {"A", "B", "C"} |-> IF c = focus THEN c2c ELSE other.cornerToCenter],
     edgeParallel |->
         [e \in {"BC", "CA", "AB"} |->
             IF e = getOppositeEdge(focus) THEN ep ELSE other.edgeParallel],
     cornerArcs |-> [e \in {"AB", "BC", "CA"} |-> other.cornerArcs]]

\* the slots of the built-in patterns
AsanohaLine == [weightMultiplier |-> QInt(1), blockedBy |-> "null", startSide |-> "corner"]
GomaLine ==
    [positionMode |-> "from-edge", distance |-> QInt(2), weightMultiplier |-> QInt(1),
     isBlocker |-> FALSE]
SakuraLine == [weightMultiplier |-> QInt(1), blockedBy |-> "edgeParallel", startSide |-> "center"]
SakuraBlocker ==
    [positionMode |-> "from-corner", distance |-> QFrac(5, 2),
     weightMultiplier |-> QFrac(3, 2), isBlocker |-> TRUE]
ShippoArc == [radius |-> QInt(15), weightMultiplier |-> QInt(1)]

NoCornerToCenter == [c \in {"A", "B", "C"} |-> null]
NoEdgeParallel == [e \in {"BC", "CA", "AB"} |-> null]
NoCornerArcs == [e \in {"AB", "BC", "CA"} |-> null]

\* builtInPatterns; description, created and modified are left out
builtInPatterns ==
    << [id |-> "builtin-asanoha", name |-> "Asanoha", tags |-> {"traditional", "geometric"},
        isBuiltIn |-> TRUE, baseWeight |-> QFrac(4, 5),
        cornerToCenter |-> [c \in {"A", "B", "C"} |-> AsanohaLine],
        edgeParallel |-> NoEdgeParallel,
        cornerArcs |-> NoCornerArcs],
       [id |-> "builtin-goma", name |-> "Goma", tags |-> {"traditional", "geometric"},
        isBuiltIn |-> TRUE, baseWeight |-> QFrac(4, 5),
        cornerToCenter |-> NoCornerToCenter,
        edgeParallel |-> [e \in {"BC", "CA", "AB"} |-> GomaLine],
        cornerArcs |-> NoCornerArcs],
       [id |-> "builtin-sakura", name |-> "Sakura", tags |-> {"traditional", "floral"},
        isBuiltIn |-> TRUE, baseWeight |-> QFrac(4, 5),
        cornerToCenter |-> [c \in {"A", "B", "C"} |-> SakuraLine],
        edgeParallel |-> [e \in {"BC", "CA", "AB"} |-> SakuraBlocker],
        cornerArcs |-> NoCornerArcs],
       [id |-> "builtin-shippo", name |-> "Shippo", tags |-> {"traditional", "curved"},
        isBuiltIn |-> TRUE, baseWeight |-> QFrac(4, 5),
        cornerToCenter |-> NoCornerToCenter,
        edgeParallel |-> NoEdgeParallel,
        cornerArcs |-> [e \in {"AB", "BC", "CA"} |-> ShippoArc]] >>

\* a pattern with corner-to-center lines only, on the corners of the set on
CornerPattern(on, weightMultiplier, startSide) ==
    [baseWeight |-> QFrac(4, 5),
     cornerToCenter |->
         [c \in {"A", "B", "C"} |->
             IF c \in on
             THEN [weightMultiplier |-> IF c = "B" THEN QInt(1) ELSE weightMultiplier,
                   blockedBy |-> "null", startSide |-> startSide]
             ELSE null],
     edgeParallel |-> NoEdgeParallel,
     cornerArcs |-> NoCornerArcs]

\* a pattern with arcs only, on the edges of the set on
ArcPattern(on, radius) ==
    [baseWeight |-> QFrac(4, 5),
     cornerToCenter |-> NoCornerToCenter,
     edgeParallel |-> NoEdgeParallel,
     cornerArcs |->
         [e \in {"AB", "BC", "CA"} |->
             IF e \in on THEN [radius |-> radius, weightMultiplier |-> QFrac(3, 2)]
             ELSE null]]

\* edge lengths and radii whose arc height is representable: radius 15 on edges
\* of 18, 24 and 30 (half the chord), replaced radii on an edge of 0.12
ArcCases ==
    {<<QInt(18), QInt(15)>>, <<QInt(24), QInt(15)>>, <<QInt(30), QInt(15)>>,
     <<QFrac(3, 25), Zero>>, <<QFrac(3, 25), QInt(-1)>>, <<QInt(6), QInt(5)>>}

\* patterns of one kind of slot, with the edge length they are applied at
PlainCases ==
    {<<e, CornerPattern(on, w, side)>> :
        e \in {QInt(6), QInt(18)}, on \in SUBSET {"A", "B", "C"},
        w \in {QInt(1), QFrac(3, 2)}, side \in {"corner", "center"}}
    \cup {<<c[1], ArcPattern(on, c[2])>> : c \in ArcCases, on \in SUBSET {"AB", "BC", "CA"}}
    \cup {<<QInt(18), builtInPatterns[i]>> : i \in {1, 4}}

\* the built-in patterns with edge-parallel lines
LinedCases == {<<QInt(18), builtInPatterns[i]>> : i \in {2, 3}}

PlainCall(fn, case, col, rotation) ==
    [fn |-> fn,
     pattern |-> case[2],
     triangle |-> getTriangleForCell(0, col, case[1], Zero, Zero),
     edgeLength |-> case[1],
     rotation |-> rotation,
     edgeWeight |-> QFrac(4, 5)]

SegCall(fn, baseWeight, focus, ep, c2c, other, col, rotation) ==
    [fn |-> fn,
     pattern |-> MkPattern(baseWeight, focus, ep, c2c, other),
     triangle |-> getTriangleForCell(0, col, SegEdgeLength, Zero, Zero),
     edgeLength |-> SegEdgeLength,
     rotation |-> rotation,
     edgeWeight |-> QFrac(4, 5)]

\* The polygon variant is given weights that are multiples of a third of the
\* altitude, so that the corners of its rectangles stay on the lattice of the
\* distances.
InitSegments ==
    /\ \/ \E focus \in {"A", "B", "C"},
          c2c \in CornerToCenterConfigs \cup {null},
          col \in 0..1, rotation \in Rotations :
            \/ \E ep \in EdgeParallelConfigs(Distances \cup MmDistances,
                                             CornerDistances \cup MmDistances) \cup {null},
                  other \in OtherPresets :
                 call = SegCall("generatePatternSegments", QInt(1),
                                focus, ep, c2c, other, col, rotation)
            \/ \E ep \in EdgeParallelConfigs(Distances, CornerDistances) \cup {null},
                  other \in OtherPresets_polygons :
                 call = SegCall("generatePatternSegments_polygons", QMul(QInt(2), DistStep),
                                focus, ep, c2c, other, col, rotation)
       \/ \E col \in 0..1, rotation \in Rotations :
            \/ \E case \in PlainCases,
                  fn \in {"generatePatternSegments", "generatePatternSegments_polygons"} :
                 call = PlainCall(fn, case, col, rotation)
            \/ \E case \in LinedCases :
                 call = PlainCall("generatePatternSegments", case, col, rotation)
    /\ ret = NoValue

GeneratePatternSegments ==
    /\ call.fn = "generatePatternSegments"
    /\ ret = NoValue
    /\ ret' = generatePatternSegments(call.pattern, call.triangle, call.rotation,
                                      call.edgeWeight)
    /\ UNCHANGED call

\* generatePatternSegments of the polygon variant
GeneratePatternSegments_polygons ==
    /\ call.fn = "generatePatternSegments_polygons"
    /\ ret = NoValue
    /\ ret' = generatePatternSegments_polygons(call.pattern, call.triangle, call.rotation)
    /\ UNCHANGED call

NextSegments ==
    \/ GeneratePatternSegments
    \/ GeneratePatternSegments_polygons

SpecSegments == InitSegments /\ [][NextSegments]_vars

\* the cell the segments are made for
SegTri == rotateTriangle(call.triangle, call.rotation)

Altitude == QMul(QDiv(call.edgeLength, QInt(2)), Sqrt3)

DistFromEdge(config) ==
    IF config.positionMode = "from-corner"
    THEN QSub(Altitude, config.distance)
    ELSE config.distance

\* the edge has a config whose line lies strictly between the edge and the corner
EdgeInRange(edge) ==
    /\ call.pattern.edgeParallel[edge] # null
    /\ QGt(DistFromEdge(call.pattern.edgeParallel[edge]), Zero)
    /\ QLt(DistFromEdge(call.pattern.edgeParallel[edge]), Altitude)

EdgeOutOfRange(edge) ==
    /\ call.pattern.edgeParallel[edge] # null
    /\ ~EdgeInRange(edge)

ConfiguredCorners == {c \in {"A", "B", "C"} : call.pattern.cornerToCenter[c] # null}

CornersBefore(c) ==
    CASE c = "A" -> {}
      [] c = "B" -> {"A"}
      [] c = "C" -> {"A", "B"}

\* the line of corner c: the corner-to-center lines are the last ones of the
\* result, in the order A, B, C
CornerLine(c) ==
    ret.lines[Len(ret.lines) - Cardinality(ConfiguredCorners)
              + Cardinality(CornersBefore(c) \cap ConfiguredCorners) + 1]

MeanCenterWeight ==
    LET w(c) == IF c \in ConfiguredCorners
                THEN QMul(call.pattern.baseWeight,
                          call.pattern.cornerToCenter[c].weightMultiplier)
                ELSE Zero
    IN  QDiv(QAdd(w("A"), QAdd(w("B"), w("C"))), QInt(Cardinality(ConfiguredCorners)))

\* the unblocked line of corner c
FullLine(c) ==
    [start |-> SegTri[c], end |-> SegTri.centroid,
     weight |-> QMul(call.pattern.baseWeight, call.pattern.cornerToCenter[c].weightMultiplier),
     startIntersectWeight |-> call.edgeWeight,
     endIntersectWeight |-> MeanCenterWeight]

SqLen(p, q) ==
    QAdd(QMul(QSub(q.x, p.x), QSub(q.x, p.x)), QMul(QSub(q.y, p.y), QSub(q.y, p.y)))

\* corner c asks for blocking and the line parallel to its opposite edge was
\* emitted as a blocker
HasBlocker(c) ==
    /\ c \in ConfiguredCorners
    /\ call.pattern.cornerToCenter[c].blockedBy = "edgeParallel"
    /\ EdgeInRange(getOppositeEdge(c))
    /\ call.pattern.edgeParallel[getOppositeEdge(c)].isBlocker

\* C1: for every corner whose config has blockedBy = 'edgeParallel' and whose
\* opposite edge's parallel line was emitted as a blocker, at any position
\* strictly between edge and corner and for any weight, the emitted
\* corner-to-center line is strictly shorter than the distance from the corner
\* to the centroid, and keeps its end at the centroid (startSide 'center') or its
\* start at the corner (startSide 'corner').
C1_BlockedLineShorter ==
    Returned("generatePatternSegments") =>
        \A c \in {"A", "B", "C"} : HasBlocker(c) =>
            LET line == CornerLine(c)
            IN  /\ QLt(SqLen(line.start, line.end), SqLen(SegTri[c], SegTri.centroid))
                /\ call.pattern.cornerToCenter[c].startSide = "center"
                       => line.end = SegTri.centroid
                /\ call.pattern.cornerToCenter[c].startSide = "corner"
                       => line.start = SegTri[c]

Suppressed(pattern) ==
    [pattern EXCEPT !.edgeParallel =
        [e \in {"BC", "CA", "AB"} |-> IF EdgeOutOfRange(e) THEN null ELSE pattern.edgeParallel[e]]]

\* what the variant that was called returns for the pattern without the
\* out-of-range configs
SuppressedResult ==
    IF call.fn = "generatePatternSegments"
    THEN generatePatternSegments(Suppressed(call.pattern), call.triangle,
                                 call.rotation, call.edgeWeight)
    ELSE generatePatternSegments_polygons(Suppressed(call.pattern), call.triangle,
                                          call.rotation)

\* the unblocked line of corner c in the polygon variant
FullLine_polygons(c) ==
    [start |-> SegTri[c], end |-> SegTri.centroid,
     weight |-> QMul(call.pattern.baseWeight, call.pattern.cornerToCenter[c].weightMultiplier)]

\* the out-of-range configs of the line variant emit nothing and block nothing
OutOfRangeSuppressed_lines ==
    Returned("generatePatternSegments") =>
        /\ ret = SuppressedResult
        /\ Len(ret.lines) = Cardinality({e \in {"BC", "CA", "AB"} : EdgeInRange(e)})
                            + Cardinality(ConfiguredCorners)
        /\ \A c \in ConfiguredCorners :
               EdgeOutOfRange(getOppositeEdge(c)) => CornerLine(c) = FullLine(c)

\* the out-of-range configs of the polygon variant emit nothing and block nothing
OutOfRangeSuppressed_polygons ==
    Returned("generatePatternSegments_polygons") =>
        /\ ret = SuppressedResult
        /\ Len(ret.polygons) <= Cardinality({e \in {"BC", "CA", "AB"} : EdgeInRange(e)})
        /\ \A c \in ConfiguredCorners :
               EdgeOutOfRange(getOppositeEdge(c)) => CornerLine(c) = FullLine_polygons(c)

\* C3: an edge-parallel config with distFromEdge <= 0 or >= altitude
\* (distFromEdge = distance for 'from-edge', altitude - distance for
\* 'from-corner') emits nothing and records no blocker: the result is that of the
\* pattern without the config, so the other edges and passes are as they would
\* be, and a corner-to-center line on the near corner with blockedBy =
\* 'edgeParallel' is the full line. Stated for the line variant and for the
\* polygon variant.
C3_OutOfRangeSuppressed ==
    /\ OutOfRangeSuppressed_lines
    /\ OutOfRangeSuppressed_polygons

\* a blocker config exactly on the edge (distFromEdge = 0), its near corner
\* asking for blocking, the other edges emitting their lines
C3_Witness ==
    /\ Returned("generatePatternSegments")
    /\ \E c \in ConfiguredCorners :
        /\ call.pattern.cornerToCenter[c].blockedBy = "edgeParallel"
        /\ EdgeOutOfRange(getOppositeEdge(c))
        /\ call.pattern.edgeParallel[getOppositeEdge(c)].isBlocker
        /\ DistFromEdge(call.pattern.edgeParallel[getOppositeEdge(c)]) = Zero
        /\ \A o \in {"A", "B", "C"} \ {c} : EdgeInRange(getOppositeEdge(o))
        /\ Len(ret.lines) = 2 + Cardinality(ConfiguredCorners)

\* either variant of generatePatternSegments has returned
ReturnedSegments ==
    Returned("generatePatternSegments") \/ Returned("generatePatternSegments_polygons")

ConfiguredEdges == {e \in {"BC", "CA", "AB"} : call.pattern.edgeParallel[e] # null}

ConfiguredArcs == {e \in {"AB", "BC", "CA"} : call.pattern.cornerArcs[e] # null}

\* C12: for a pattern with corner-to-center slots only, all with blockedBy null
\* (such as the built-in Asanoha), generatePatternSegments returns, for up- and
\* down-pointing triangles and every rotation, exactly one line per enabled
\* corner, in the order A, B, C, from that corner of the rotated triangle to its
\* centroid, of weight baseWeight * weightMultiplier, and no arcs and no polygons.
C12_CornerLinesOnly ==
    (/\ ReturnedSegments
     /\ ConfiguredEdges = {}
     /\ ConfiguredArcs = {}
     /\ \A c \in ConfiguredCorners : call.pattern.cornerToCenter[c].blockedBy = "null")
    => /\ Len(ret.lines) = Cardinality(ConfiguredCorners)
       /\ \A c \in ConfiguredCorners :
            /\ CornerLine(c).start = SegTri[c]
            /\ CornerLine(c).end = SegTri.centroid
            /\ CornerLine(c).weight =
                   QMul(call.pattern.baseWeight, call.pattern.cornerToCenter[c].weightMultiplier)
       /\ ret.arcs = <<>>
       /\ ret.polygons = <<>>

\* the built-in Asanoha on a rotated cell: three lines of weight 0.8
C12_Witness ==
    /\ Returned("generatePatternSegments")
    /\ call.pattern = builtInPatterns[1]
    /\ call.rotation = 120
    /\ Len(ret.lines) = 3
    /\ \A i \in 1..3 : ret.lines[i].weight = QFrac(4, 5) /\ ret.lines[i].end = SegTri.centroid
    /\ ret.lines[1].start = SegTri.A
    /\ ret.lines[1].start # call.triangle.A

-----------------------------------------------------------------------------
(* SpecArc: calculateInwardArc on the edges of grid cells                   *)

MaxRadiusStep == 4

\* edge lengths e = (k^2 - 1)/1000, for which the height of the arc of radius
\* e/2 + 0.001 is the rational k/1000
PaddedEdgeLengths == {QFrac(3, 25), QFrac(9, 25)}

ArcEdgeLengths == {QInt(6), QInt(18)}

\* radii with a rational height over the half chord half: half * (j^2 + 1)/(2j);
\* the first of them is half itself
RadiusAt(half, j) == QMul(half, QFrac(j * j + 1, 2 * j))

\* radii that are at least half the chord e: the steps above, and e itself
WideRadii(e) ==
    {RadiusAt(QDiv(e, QInt(2)), j) : j \in 1..MaxRadiusStep} \cup {e}

\* radii below half the chord e: negative, zero, a quarter and 499/1000 of it
NarrowRadii(e) == {QInt(-1), Zero, QDiv(e, QInt(4)), QMul(e, QFrac(499, 1000))}

ArcCall(e, radius, col, rotation, entry) ==
    [fn |-> "calculateInwardArc",
     tri |-> rotateTriangle(getTriangleForCell(0, col, e, Zero, Zero), rotation),
     entry |-> entry,
     radius |-> radius]

InitArc ==
    /\ \E col \in 0..1, rotation \in Rotations, i \in 1..3 :
          \/ \E e \in PaddedEdgeLengths : \E radius \in NarrowRadii(e) \cup WideRadii(e) :
               call = ArcCall(e, radius, col, rotation, arcEdges[i])
          \/ \E e \in ArcEdgeLengths : \E radius \in WideRadii(e) :
               call = ArcCall(e, radius, col, rotation, arcEdges[i])
    /\ ret = NoValue

\* the two corners of the edge of the call
ArcP1 == getCornerPoint(call.tri, call.entry.corners[1])
ArcP2 == getCornerPoint(call.tri, call.entry.corners[2])

\* calculateInwardArc as generateCornerArcs calls it
CalculateInwardArc ==
    /\ call.fn = "calculateInwardArc"
    /\ ret = NoValue
    /\ ret' = calculateInwardArc(ArcP1, ArcP2, call.radius, call.tri.centroid)
    /\ UNCHANGED call

NextArc == CalculateInwardArc

SpecArc == InitArc /\ [][NextArc]_vars

\* the angle (carried as the vector it is the direction of) points from the
\* center to p, and p is at the distance radius from the center
ArcEndsAt(arc, angle, p) ==
    /\ SqLen(arc.center, p) = QMul(arc.radius, arc.radius)
    /\ QSign(QSub(QMul(angle.dx, QSub(p.y, arc.center.y)),
                  QMul(angle.dy, QSub(p.x, arc.center.x)))) = 0
    /\ QSign(QAdd(QMul(angle.dx, QSub(p.x, arc.center.x)),
                  QMul(angle.dy, QSub(p.y, arc.center.y)))) > 0

\* the center mirrored at the chord: the other candidate
OtherCenter(arc, p1, p2) ==
    Pt(QSub(QAdd(p1.x, p2.x), arc.center.x), QSub(QAdd(p1.y, p2.y), arc.center.y))

\* the arc has a radius of at least half the chord, starts at p1, ends at p2, and
\* its center is the one of the two candidates that is not nearer to toward
InwardArcOf(arc, p1, p2, toward) ==
    /\ arc # null
    /\ QGe(QMul(QMul(arc.radius, arc.radius), QInt(4)), SqLen(p1, p2))
    /\ QSign(arc.radius) > 0
    /\ ArcEndsAt(arc, arc.startAngle, p1)
    /\ ArcEndsAt(arc, arc.endAngle, p2)
    /\ QGe(SqLen(arc.center, toward), SqLen(OtherCenter(arc, p1, p2), toward))
    /\ Orient(p1, p2, arc.center) * Orient(p1, p2, toward) <= 0

ArcOrder == SelectSeq(<<"AB", "BC", "CA">>, LAMBDA e : e \in ConfiguredArcs)

\* the two corners an edge joins, in the order of its name
ArcCorners(e) ==
    CASE e = "AB" -> <<"A", "B">>
      [] e = "BC" -> <<"B", "C">>
      [] e = "CA" -> <<"C", "A">>

\* C13: for a pattern with arc slots only (such as the built-in Shippo with
\* radius 15), generatePatternSegments returns exactly one arc per configured
\* edge, in the order AB, BC, CA and whatever the radius, each between the two
\* corners of its edge and of weight baseWeight * weightMultiplier, and no lines
\* and no polygons.
C13_ArcsOnly ==
    (/\ ReturnedSegments
     /\ ConfiguredEdges = {}
     /\ ConfiguredCorners = {})
    => /\ Len(ret.arcs) = Cardinality(ConfiguredArcs)
       /\ \A i \in 1..Len(ret.arcs) :
            /\ i <= Len(ArcOrder)
            /\ InwardArcOf([center |-> ret.arcs[i].center, radius |-> ret.arcs[i].radius,
                            startAngle |-> ret.arcs[i].startAngle,
                            endAngle |-> ret.arcs[i].endAngle],
                           SegTri[ArcCorners(ArcOrder[i])[1]],
                           SegTri[ArcCorners(ArcOrder[i])[2]], SegTri.centroid)
            /\ ret.arcs[i].weight =
                   QMul(call.pattern.baseWeight,
                        call.pattern.cornerArcs[ArcOrder[i]].weightMultiplier)
       /\ ret.lines = <<>>
       /\ ret.polygons = <<>>

\* the built-in Shippo gives three arcs of radius 15; so does a radius of zero,
\* replaced by one just above half the chord
C13_Witness ==
    /\ ReturnedSegments
    /\ Len(ret.arcs) = 3
    /\ ret.lines = <<>>
    /\ \/ call.pattern = builtInPatterns[4] /\ ret.arcs[2].radius = QInt(15)
       \/ call.pattern.cornerArcs["AB"].radius = Zero /\ QSign(ret.arcs[1].radius) > 0

-----------------------------------------------------------------------------
(* SpecPanel: generatePanelGeometry and generateTiledPreview                *)

MaxPanelStep == 1

PanelEdgeLength == QInt(6)

\* the patterns of the store: the built-in Asanoha, a heavier pattern with one
\* line and three arcs, and two patterns with all nine slots null
PanelPatterns ==
    << builtInPatterns[1],
       [id |-> "user-bold", name |-> "Bold", tags |-> {}, isBuiltIn |-> FALSE,
        baseWeight |-> QFrac(6, 5),
        cornerToCenter |-> [c \in {"A", "B", "C"} |-> IF c = "A" THEN AsanohaLine ELSE null],
        edgeParallel |-> NoEdgeParallel,
        cornerArcs |-> [e \in {"AB", "BC", "CA"} |->
                           [radius |-> QInt(5), weightMultiplier |-> QInt(1)]]],
       [id |-> "user-blank", name |-> "Blank", tags |-> {}, isBuiltIn |-> FALSE,
        baseWeight |-> QFrac(4, 5),
        cornerToCenter |-> NoCornerToCenter, edgeParallel |-> NoEdgeParallel,
        cornerArcs |-> NoCornerArcs],
       [id |-> "user-blank-bold", name |-> "Blank bold", tags |-> {}, isBuiltIn |-> FALSE,
        baseWeight |-> QInt(2),
        cornerToCenter |-> NoCornerToCenter, edgeParallel |-> NoEdgeParallel,
        cornerArcs |-> NoCornerArcs] >>

\* the ids of the patterns, and one that names no pattern
PatternIds == {PanelPatterns[i].id : i \in 1..Len(PanelPatterns)} \cup {"missing"}

\* two cells with a common edge
OverrideCells == {<<0, 0>>, <<0, 1>>}

CellConfigs == [patternId : PatternIds, rotation : {0, 120}]

\* panel.cells: overrides on some of the two cells
CellMaps == UNION {[cells -> CellConfigs] : cells \in SUBSET OverrideCells}

MkPanel(step, defaultPatternId, cells) ==
    [widthMm |-> QInt(7 + step), heightMm |-> QInt(6 + step),
     triangleSizeMm |-> PanelEdgeLength,
     defaultPatternId |-> defaultPatternId, cells |-> cells]

InitPanel ==
    /\ \E variant \in {"lines", "polygons"} :
        \/ \E step \in 0..MaxPanelStep, id \in PatternIds, cells \in CellMaps :
             call = [fn |-> "generatePanelGeometry", variant |-> variant,
                     panel |-> MkPanel(step, id, cells), patterns |-> PanelPatterns]
        \/ \E i \in 1..Len(PanelPatterns) :
             call = [fn |-> "generateTiledPreview", variant |-> variant,
                     pattern |-> PanelPatterns[i], triangleSize |-> PanelEdgeLength]
    /\ ret = NoValue

GeneratePanelGeometry ==
    /\ call.fn = "generatePanelGeometry"
    /\ ret = NoValue
    /\ ret' = generatePanelGeometry(call.panel, call.patterns, call.variant)
    /\ UNCHANGED call

GenerateTiledPreview ==
    /\ call.fn = "generateTiledPreview"
    /\ ret = NoValue
    /\ ret' = generateTiledPreview(call.pattern, call.triangleSize, call.variant)
    /\ UNCHANGED call

NextPanel ==
    \/ GeneratePanelGeometry
    \/ GenerateTiledPreview

SpecPanel == InitPanel /\ [][NextPanel]_vars

\* the cells of the grid whose triangle generatePanelGeometry does not skip
PanelCells(panel) ==
    LET dims == calculateGridDimensions(panel.widthMm, panel.heightMm, panel.triangleSizeMm)
    IN  {cell \in (0..(dims.rows - 1)) \X (0..(dims.cols - 1)) :
            triangleIntersectsRect(
                getTriangleForCell(cell[1], cell[2], panel.triangleSizeMm, Zero, Zero),
                Zero, Zero, panel.widthMm, panel.heightMm)}

CellTriangle(panel, cell) ==
    getTriangleForCell(cell[1], cell[2], panel.triangleSizeMm, Zero, Zero)

\* the pattern and the rotation a cell is drawn with
CellPattern(panel, patterns, cell) ==
    IF cell \in DOMAIN panel.cells
    THEN patternOr(findPattern(patterns, panel.cells[cell].patternId, 1),
                   findPattern(patterns, panel.defaultPatternId, 1))
    ELSE findPattern(patterns, panel.defaultPatternId, 1)

CellRotation(panel, cell) ==
    IF cell \in DOMAIN panel.cells THEN panel.cells[cell].rotation ELSE 0

\* all nine slots of the pattern are null
AllNull(pattern) ==
    /\ \A c \in {"A", "B", "C"} : pattern.cornerToCenter[c] = null
    /\ \A e \in {"BC", "CA", "AB"} : pattern.edgeParallel[e] = null
    /\ \A e \in {"AB", "BC", "CA"} : pattern.cornerArcs[e] = null

\* the line is an edge of the triangle of a cell of the panel, clipped to the panel
IsClippedEdge(line, panel) ==
    \E cell \in PanelCells(panel), k \in {<<"A", "B">>, <<"B", "C">>, <<"C", "A">>} :
        LET tri == CellTriangle(panel, cell)
            clipped == clipLineToRect(tri[k[1]], tri[k[2]], Zero, Zero,
                                      panel.widthMm, panel.heightMm)
        IN  clipped # null /\ line.start = clipped.start /\ line.end = clipped.end

\* C14: a pattern whose nine slots are all null yields no segments, whatever the
\* triangle and the rotation; a panel whose default pattern exists and whose cells
\* are all drawn with such patterns yields no arcs, no polygons, and no lines but
\* clipped triangle edges; the tiled preview of such a pattern has no segments.
C14_NullPatternOnlyEdges ==
    /\ (/\ Returned("generatePanelGeometry")
        /\ findPattern(call.patterns, call.panel.defaultPatternId, 1) # undefined
        /\ \A cell \in PanelCells(call.panel) :
               AllNull(CellPattern(call.panel, call.patterns, cell)))
       => /\ ret.arcs = <<>>
          /\ ret.polygons = <<>>
          /\ \A i \in 1..Len(ret.lines) : IsClippedEdge(ret.lines[i], call.panel)
          /\ \A cell \in PanelCells(call.panel) :
                 generatePatternSegments_of(call.variant,
                     CellPattern(call.panel, call.patterns, cell),
                     CellTriangle(call.panel, cell),
                     CellRotation(call.panel, cell)) = EmptySegments
    /\ (Returned("generateTiledPreview") /\ AllNull(call.pattern))
       => ret.allSegments = EmptySegments

\* a panel of all-null patterns, one cell rotated, with clipped edges in the output
C14_Witness ==
    /\ Returned("generatePanelGeometry")
    /\ call.panel.defaultPatternId = "user-blank"
    /\ DOMAIN call.panel.cells = {<<0, 1>>}
    /\ call.panel.cells[<<0, 1>>].patternId = "user-blank-bold"
    /\ call.panel.cells[<<0, 1>>].rotation = 120
    /\ Len(ret.lines) >= 3
    /\ ret.arcs = <<>>

\* the panel with the override of one cell set to config
WithCell(panel, cell, config) ==
    [panel EXCEPT !.cells =
        [c \in DOMAIN panel.cells \cup {cell} |-> IF c = cell THEN config ELSE panel.cells[c]]]

\* the weights of the lines of the result between the two ends of clipped
EdgeWeights(result, clipped) ==
    {result.lines[i].weight :
        i \in {i \in 1..Len(result.lines) :
                  {result.lines[i].start, result.lines[i].end} = {clipped.start, clipped.end}}}

\* the weights the result draws each edge of the cell's triangle with, by the
\* name of the edge
CellEdgeWeights(result, panel, cell) ==
    [k \in {<<"A", "B">>, <<"B", "C">>, <<"C", "A">>} |->
        LET clipped == clipLineToRect(CellTriangle(panel, cell)[k[1]],
                                      CellTriangle(panel, cell)[k[2]],
                                      Zero, Zero, panel.widthMm, panel.heightMm)
        IN  IF clipped = null THEN {} ELSE EdgeWeights(result, clipped)]

\* the segments of the cell's own pattern, clipped to the panel
CellSegments(panel, patterns, variant, cell) ==
    clipAndAddSegments(
        generatePatternSegments_of(variant, CellPattern(panel, patterns, cell),
                                   CellTriangle(panel, cell), CellRotation(panel, cell)),
        EmptySegments, panel)

\* what the result draws on the triangle of the cell: the weights of its three
\* edges, and those of its own pattern's lines, arcs and polygons that are drawn
CellPrimitives(result, panel, patterns, variant, cell) ==
    [edges |-> CellEdgeWeights(result, panel, cell),
     lines |-> Range(CellSegments(panel, patterns, variant, cell).lines)
                   \cap Range(result.lines),
     arcs |-> Range(CellSegments(panel, patterns, variant, cell).arcs)
                  \cap Range(result.arcs),
     polygons |-> Range(CellSegments(panel, patterns, variant, cell).polygons)
                      \cap Range(result.polygons)]

\* C16: what generatePanelGeometry draws on the triangle of a cell (the three
\* edges and the cell's pattern segments, with their weights) is the same whatever
\* pattern and rotation the neighbouring cell is given: here the cell is (0,1) and
\* the neighbour (0,0), which share an edge.
C16_CellIndependent ==
    (/\ Returned("generatePanelGeometry")
     /\ findPattern(call.patterns, call.panel.defaultPatternId, 1) # undefined
     /\ {<<0, 0>>, <<0, 1>>} \subseteq PanelCells(call.panel))
    => \A config \in CellConfigs :
           CellPrimitives(ret, call.panel, call.patterns, call.variant, <<0, 1>>)
           = CellPrimitives(
                 generatePanelGeometry(WithCell(call.panel, <<0, 0>>, config),
                                       call.patterns, call.variant),
                 WithCell(call.panel, <<0, 0>>, config), call.patterns, call.variant,
                 <<0, 1>>)

\* the edges of a triangle, each as the set of its two ends
TriangleEdgeSet(tri) == {{tri.A, tri.B}, {tri.B, tri.C}, {tri.C, tri.A}}

\* the edges of the cells generatePanelGeometry visits
PanelEdgeSet(panel) == UNION {TriangleEdgeSet(CellTriangle(panel, cell)) : cell \in PanelCells(panel)}

\* the edges of the cells of the tiled preview
TiledEdgeSet(triangleSize) ==
    UNION {TriangleEdgeSet(getTriangleForCell(row, col, triangleSize, Zero, Zero)) :
               row \in 0..(TiledRows - 1), col \in 0..(TiledCols - 1)}

\* the two ends of the part of the edge in the panel, or {} when it has none
ClippedEnds(edge, panel) ==
    LET p == CHOOSE p \in edge : TRUE
        q == CHOOSE q \in edge : q # p
        clipped == clipLineToRect(p, q, Zero, Zero, panel.widthMm, panel.heightMm)
    IN  IF clipped = null THEN {} ELSE {clipped.start, clipped.end}

\* the places of the lines between the given ends
LinesBetween(lines, ends) ==
    {i \in 1..Len(lines) : {lines[i].start, lines[i].end} = ends}

EdgeMeetsPanel(edge, panel) ==
    \E p \in edge, q \in edge :
        /\ p # q
        /\ SegmentMeetsRect(p, q, [minX |-> Zero, minY |-> Zero,
                                   maxX |-> panel.widthMm, maxY |-> panel.heightMm])

\* C17: in the output of generatePanelGeometry an edge of a visited cell is drawn
\* at most once, also when two cells share it, and at least once when it has a
\* point in the panel rectangle; the key of an edge is the same for both orders
\* of its ends; the edges of generateTiledPreview hold each edge of its twelve
\* cells once.  (An edge that meets the panel in one point is clipped to that
\* point, and so are the other edges through it: those are counted together.)
C17_EdgesOnce ==
    /\ (/\ Returned("generatePanelGeometry")
        /\ findPattern(call.patterns, call.panel.defaultPatternId, 1) # undefined)
       => \A edge \in PanelEdgeSet(call.panel) :
            /\ EdgeMeetsPanel(edge, call.panel)
               => LinesBetween(ret.lines, ClippedEnds(edge, call.panel)) # {}
            /\ Cardinality(ClippedEnds(edge, call.panel)) = 2
               => Cardinality(LinesBetween(ret.lines, ClippedEnds(edge, call.panel))) <= 1
            /\ ~EdgeMeetsPanel(edge, call.panel)
               => /\ ClippedEnds(edge, call.panel) = {}
                  /\ \A i \in 1..Len(ret.lines) : {ret.lines[i].start, ret.lines[i].end} # edge
            /\ \A p \in edge, q \in edge : edgeToKey(p, q) = edgeToKey(q, p)
    /\ Returned("generateTiledPreview")
       => /\ \A edge \in TiledEdgeSet(call.triangleSize) :
                Cardinality(LinesBetween(ret.allEdges, edge)) = 1
          /\ Len(ret.allEdges) = Cardinality(TiledEdgeSet(call.triangleSize))

\* cells (0,0) and (0,1) are visited and share an edge, which is drawn
C17_Witness ==
    /\ Returned("generatePanelGeometry")
    /\ {<<0, 0>>, <<0, 1>>} \subseteq PanelCells(call.panel)
    /\ \E edge \in TriangleEdgeSet(CellTriangle(call.panel, <<0, 0>>))
                   \cap TriangleEdgeSet(CellTriangle(call.panel, <<0, 1>>)) :
           /\ Cardinality(ClippedEnds(edge, call.panel)) = 2
           /\ Cardinality(LinesBetween(ret.lines, ClippedEnds(edge, call.panel))) = 1

\* C18: when panel.defaultPatternId matches no pattern of the list, the result of
\* generatePanelGeometry has empty lines, arcs and polygons, also when cells have
\* overrides that name patterns of the list.
C18_MissingDefaultEmpty ==
    (/\ Returned("generatePanelGeometry")
     /\ \A i \in 1..Len(call.patterns) : call.patterns[i].id # call.panel.defaultPatternId)
    => /\ ret.lines = <<>>
       /\ ret.arcs = <<>>
       /\ ret.polygons = <<>>

\* the default is missing and both overrides name patterns that exist
C18_Witness ==
    /\ Returned("generatePanelGeometry")
    /\ call.panel.defaultPatternId = "missing"
    /\ DOMAIN call.panel.cells = {<<0, 0>>, <<0, 1>>}
    /\ call.panel.cells[<<0, 0>>].patternId = "builtin-asanoha"
    /\ call.panel.cells[<<0, 1>>].patternId = "user-bold"
    /\ ret = EmptySegments

\* the visited cells whose override names no pattern of the list
UnresolvedCells(panel, patterns) ==
    {cell \in PanelCells(panel) \cap DOMAIN panel.cells :
        \A i \in 1..Len(patterns) : patterns[i].id # panel.cells[cell].patternId}

\* the result holds a segment that pattern p would draw in the cell
DrawnWith(result, panel, variant, p, cell) ==
    LET segments == clipAndAddSegments(
                        generatePatternSegments_of(variant, p, CellTriangle(panel, cell),
                                                   CellRotation(panel, cell)),
                        EmptySegments, panel)
    IN  \/ Range(segments.lines) \cap Range(result.lines) # {}
        \/ Range(segments.arcs) \cap Range(result.arcs) # {}
        \/ Range(segments.polygons) \cap Range(result.polygons) # {}

\* C19: when the default pattern exists and the override of a cell names no
\* pattern of the list, generatePanelGeometry returns a result in which no pattern
\* lines, arcs or polygons are drawn for that cell, and every segment of the
\* other cells' patterns is drawn.
C19_UnresolvedCellEmpty ==
    (/\ Returned("generatePanelGeometry")
     /\ findPattern(call.patterns, call.panel.defaultPatternId, 1) # undefined)
    => /\ \A cell \in UnresolvedCells(call.panel, call.patterns) :
            \A i \in 1..Len(call.patterns) :
                ~DrawnWith(ret, call.panel, call.variant, call.patterns[i], cell)
       /\ \A cell \in PanelCells(call.panel) \ UnresolvedCells(call.panel, call.patterns) :
            /\ Range(CellSegments(call.panel, call.patterns, call.variant, cell).lines)
                   \subseteq Range(ret.lines)
            /\ Range(CellSegments(call.panel, call.patterns, call.variant, cell).arcs)
                   \subseteq Range(ret.arcs)

-----------------------------------------------------------------------------
(* SpecRepeat: generatePatternSegments invoked again and again.  The module  *)
(* has no variable outside its functions and none of them assigns to a field *)
(* of its parameters: an invocation reads its arguments and nothing else.    *)
(* ret is the log of the invocations made so far.                            *)

MaxInvocations == 3

RepeatEdgeLength == QInt(18)

\* a pattern with all nine slots set
FullPattern ==
    [id |-> "user-full", name |-> "Full", tags |-> {}, isBuiltIn |-> FALSE,
     baseWeight |-> QFrac(4, 5),
     cornerToCenter |-> [c \in {"A", "B", "C"} |-> AsanohaLine],
     edgeParallel |-> [e \in {"BC", "CA", "AB"} |-> GomaLine],
     cornerArcs |-> [e \in {"AB", "BC", "CA"} |-> ShippoArc]]

RepeatPatterns == {builtInPatterns[i] : i \in 1..Len(builtInPatterns)} \cup {FullPattern}

\* the arguments of an invocation
RepeatArgs ==
    [pattern : RepeatPatterns,
     triangle : {getTriangleForCell(0, col, RepeatEdgeLength, Zero, Zero) : col \in 0..1},
     rotation : {0, 120}]

InitRepeat ==
    /\ \E args \in RepeatArgs, other \in RepeatArgs :
         /\ other.pattern # args.pattern
         /\ other.triangle # args.triangle
         /\ call = [fn |-> "generatePatternSegments", args |-> args, other |-> other]
    /\ ret = <<>>

\* one more invocation, with the arguments of the call or with the other ones
GeneratePatternSegmentsAgain ==
    /\ call.fn = "generatePatternSegments"
    /\ Len(ret) < MaxInvocations
    /\ \E a \in {call.args, call.other} :
         ret' = Append(ret, [args |-> a,
                             value |-> generatePatternSegments(a.pattern, a.triangle,
                                                               a.rotation, QFrac(4, 5))])
    /\ UNCHANGED call

NextRepeat == GeneratePatternSegmentsAgain

SpecRepeat == InitRepeat /\ [][NextRepeat]_vars

\* the slot a line was made for, by its direction in the rotated triangle:
\* parallel to an edge, or along the line from a corner to the centroid
LineSlots(line, tri) ==
    {k \in {<<"BC", "B", "C">>, <<"CA", "C", "A">>, <<"AB", "A", "B">>} :
        QSign(QSub(QMul(QSub(line.end.x, line.start.x), QSub(tri[k[3]].y, tri[k[2]].y)),
                   QMul(QSub(line.end.y, line.start.y), QSub(tri[k[3]].x, tri[k[2]].x)))) = 0}
    \cup
    {<<c, c, "centroid">> : c \in
        {c \in {"A", "B", "C"} :
            /\ Orient(tri[c], tri.centroid, line.start) = 0
            /\ Orient(tri[c], tri.centroid, line.end) = 0}}

\* the place of a slot in the order BC, CA, AB, A, B, C
SlotRank(k) ==
    CASE k[1] = "BC" -> 1 [] k[1] = "CA" -> 2 [] k[1] = "AB" -> 3
      [] k[1] = "A" -> 4 [] k[1] = "B" -> 5 [] k[1] = "C" -> 6

\* the slots of the pattern that are set, in the order BC, CA, AB, A, B, C
SlotsSet(pattern) ==
    {1 : e \in {e \in {"BC"} : pattern.edgeParallel[e] # null}}
    \cup {2 : e \in {e \in {"CA"} : pattern.edgeParallel[e] # null}}
    \cup {3 : e \in {e \in {"AB"} : pattern.edgeParallel[e] # null}}
    \cup {4 : c \in {c \in {"A"} : pattern.cornerToCenter[c] # null}}
    \cup {5 : c \in {c \in {"B"} : pattern.cornerToCenter[c] # null}}
    \cup {6 : c \in {c \in {"C"} : pattern.cornerToCenter[c] # null}}

\* the lines are those of slots of increasing rank, each of a slot that is set
LinesInOrder(lines, pattern, tri) ==
    /\ \A i \in 1..Len(lines) :
         /\ Cardinality(LineSlots(lines[i], tri)) = 1
         /\ \A k \in LineSlots(lines[i], tri) : SlotRank(k) \in SlotsSet(pattern)
    /\ \A i \in 1..Len(lines), j \in 1..Len(lines) :
         i < j => \A k \in LineSlots(lines[i], tri), m \in LineSlots(lines[j], tri) :
                      SlotRank(k) < SlotRank(m)

\* the arcs are those of the edges AB, BC, CA that are set, in that order
ArcsInOrder(arcs, pattern, tri) ==
    LET order == SelectSeq(<<"AB", "BC", "CA">>, LAMBDA e : pattern.cornerArcs[e] # null)
    IN  /\ Len(arcs) = Len(order)
        /\ \A i \in 1..Len(arcs) :
             /\ ArcEndsAt(arcs[i], arcs[i].startAngle, tri[ArcCorners(order[i])[1]])
             /\ ArcEndsAt(arcs[i], arcs[i].endAngle, tri[ArcCorners(order[i])[2]])

-----------------------------------------------------------------------------
(* src/src/store/index.ts and SpecStore: the actions of the store and the    *)
(* reload of the page.  ret is the state of the store, call the action       *)
(* invoked last with its arguments, the number of actions so far (which is   *)
(* the clock of Date.now()) and of the uuids issued.                         *)
(* src/src/data/testPatterns is not among the sources: it is taken to be one *)
(* pattern tagged 'test', as deletePattern and merge expect.                 *)

MaxStoreActions == 4

\* editingPatternId null, and the '' duplicatePatternById returns: both are falsy
NoPatternId == ""

\* uuidv4(): the id its n-th call returns
uuidv4(n) == "uuid-" \o ToString(n)

testPatterns ==
    << [id |-> "test-pattern", name |-> "Test", tags |-> {"test"}, isBuiltIn |-> FALSE,
        baseWeight |-> QFrac(4, 5),
        cornerToCenter |-> NoCornerToCenter, edgeParallel |-> NoEdgeParallel,
        cornerArcs |-> NoCornerArcs] >>

\* { ...pattern, modified: now }
withModified(pattern, now) ==
    [f \in DOMAIN pattern \cup {"modified"} |-> IF f = "modified" THEN now ELSE pattern[f]]

createEmptyPattern(id, now) ==
    [id |-> id, name |-> "New Pattern", tags |-> {}, created |-> now, modified |-> now,
     isBuiltIn |-> FALSE, baseWeight |-> QFrac(4, 5),
     cornerToCenter |-> NoCornerToCenter, edgeParallel |-> NoEdgeParallel,
     cornerArcs |-> NoCornerArcs]

duplicatePattern(source, newId, now) ==
    [f \in DOMAIN source \cup {"created", "modified"} |->
        CASE f = "id" -> newId
          [] f = "name" -> source.name \o " (copy)"
          [] f = "isBuiltIn" -> FALSE
          [] f \in {"created", "modified"} -> now
          [] OTHER -> source[f]]

\* patterns.map(p => p.id === pattern.id ? { ...pattern, modified } : p)
replacePattern(patterns, pattern, now) ==
    [i \in 1..Len(patterns) |->
        IF patterns[i].id = pattern.id THEN withModified(pattern, now) ELSE patterns[i]]

\* patterns.filter(p => p.id !== patternId)
withoutPattern(patterns, patternId) == SelectSeq(patterns, LAMBDA p : p.id # patternId)

\* the guard of deletePattern: built-in, or tagged 'test'
deleteRefused(pattern) ==
    pattern # undefined /\ (pattern.isBuiltIn \/ "test" \in pattern.tags)

StoreIds(patterns) == {patterns[i].id : i \in 1..Len(patterns)}

\* what the editor can hand to updatePattern: a pattern of the store as it is,
\* with another baseWeight, with its lines removed, or no longer marked built-in;
\* and a pattern whose id is not in the store
UpdateValues(patterns) ==
    UNION {{patterns[i],
            [patterns[i] EXCEPT !.baseWeight = QInt(2)],
            [patterns[i] EXCEPT !.cornerToCenter = NoCornerToCenter],
            [patterns[i] EXCEPT !.isBuiltIn = FALSE]} : i \in 1..Len(patterns)}
    \cup {createEmptyPattern("missing", 0)}

defaultSettings ==
    [defaultBaseWeight |-> QFrac(4, 5), defaultTriangleSize |-> QInt(10),
     defaultStlDepth |-> QInt(3)]

\* editingPanelId null: falsy, as the '' no uuid is
NoPanelId == ""

\* cells: {}
NoCells == [cellKey \in {} |-> null]

\* the "Initial state" of the store
initialState ==
    [currentView |-> "library", editingPatternId |-> NoPatternId,
     editingPanelId |-> NoPanelId,
     patterns |-> builtInPatterns \o testPatterns,
     panels |-> <<>>, settings |-> defaultSettings]

InitStore ==
    /\ call = [fn |-> "useAppStore", actions |-> 0, uuids |-> 0]
    /\ ret = initialState

Invoked(fn) == [fn |-> fn, actions |-> call.actions + 1, uuids |-> call.uuids]

editPattern ==
    /\ call.actions < MaxStoreActions
    /\ \E patternId \in StoreIds(ret.patterns) \cup {NoPatternId} :
         ret' = [ret EXCEPT !.editingPatternId = patternId,
                            !.currentView = IF patternId # NoPatternId THEN "pattern-editor"
                                            ELSE "library"]
    /\ call' = Invoked("editPattern")

createPattern ==
    /\ call.actions < MaxStoreActions
    /\ ret' = [ret EXCEPT !.patterns = Append(@, createEmptyPattern(uuidv4(call.uuids + 1),
                                                                    call.actions + 1)),
                          !.editingPatternId = uuidv4(call.uuids + 1),
                          !.currentView = "pattern-editor"]
    /\ call' = [Invoked("createPattern") EXCEPT !.uuids = @ + 1]

updatePattern ==
    /\ call.actions < MaxStoreActions
    /\ \E pattern \in UpdateValues(ret.patterns) :
         ret' = [ret EXCEPT !.patterns = replacePattern(@, pattern, call.actions + 1)]
    /\ call' = Invoked("updatePattern")

\* the action invoked with one argument, a pattern id
InvokedOn(fn, patternId) ==
    [fn |-> fn, patternId |-> patternId, actions |-> call.actions + 1, uuids |-> call.uuids]

deletePattern ==
    /\ call.actions < MaxStoreActions
    /\ \E patternId \in StoreIds(ret.patterns) \cup {"missing"} :
         /\ IF deleteRefused(findPattern(ret.patterns, patternId, 1))
            THEN ret' = ret
            ELSE ret' = [ret EXCEPT !.patterns = withoutPattern(@, patternId),
                                    !.editingPatternId =
                                        IF @ = patternId THEN NoPatternId ELSE @]
         /\ call' = InvokedOn("deletePattern", patternId)

\* duplicatePatternById invoked on patternId, with the id it returns
Duplicated(patternId, returned, uuids) ==
    [fn |-> "duplicatePatternById", patternId |-> patternId, returned |-> returned,
     actions |-> call.actions + 1, uuids |-> uuids]

duplicatePatternById ==
    /\ call.actions < MaxStoreActions
    /\ \E patternId \in StoreIds(ret.patterns) \cup {"missing"} :
         IF findPattern(ret.patterns, patternId, 1) = undefined
         THEN /\ ret' = ret
              /\ call' = Duplicated(patternId, NoPatternId, call.uuids)
         ELSE /\ ret' = [ret EXCEPT !.patterns =
                            Append(@, duplicatePattern(findPattern(ret.patterns, patternId, 1),
                                                       uuidv4(call.uuids + 1),
                                                       call.actions + 1))]
              /\ call' = Duplicated(patternId, uuidv4(call.uuids + 1), call.uuids + 1)

setView ==
    /\ call.actions < MaxStoreActions
    /\ \E view \in {"library", "pattern-editor", "panel-designer"} :
         ret' = [ret EXCEPT !.currentView = view]
    /\ call' = Invoked("setView")

PanelIds(panels) == {panels[i].id : i \in 1..Len(panels)}

\* panels.find(p => p.id === id), from index i on
RECURSIVE findPanel(_, _, _)
findPanel(panels, id, i) ==
    IF i > Len(panels) THEN undefined
    ELSE IF panels[i].id = id THEN panels[i]
    ELSE findPanel(panels, id, i + 1)

editPanel ==
    /\ call.actions < MaxStoreActions
    /\ \E panelId \in PanelIds(ret.panels) \cup {NoPanelId} :
         ret' = [ret EXCEPT !.editingPanelId = panelId,
                            !.currentView = IF panelId # NoPanelId THEN "panel-designer"
                                            ELSE "library"]
    /\ call' = Invoked("editPanel")

\* emptyPattern?.id || ''
idOrEmpty(emptyPattern) == IF emptyPattern = undefined THEN "" ELSE emptyPattern.id

\* the panel createPanel makes
newPanel(id, now, settings, emptyPattern) ==
    [id |-> id, name |-> "New Panel", created |-> now, modified |-> now,
     widthMm |-> QInt(100), heightMm |-> QInt(100),
     triangleSizeMm |-> settings.defaultTriangleSize,
     stlDepthMm |-> settings.defaultStlDepth,
     defaultPatternId |-> idOrEmpty(emptyPattern), cells |-> NoCells]

createPanel ==
    /\ call.actions < MaxStoreActions
    /\ ret' = [ret EXCEPT !.panels =
                              Append(@, newPanel(uuidv4(call.uuids + 1), call.actions + 1,
                                                 ret.settings,
                                                 findPattern(ret.patterns, "builtin-empty", 1))),
                          !.editingPanelId = uuidv4(call.uuids + 1),
                          !.currentView = "panel-designer"]
    /\ call' = [Invoked("createPanel") EXCEPT !.uuids = @ + 1]

\* panels.map(p => p.id === panel.id ? { ...panel, modified } : p)
replacePanel(panels, panel, now) ==
    [i \in 1..Len(panels) |->
        IF panels[i].id = panel.id THEN withModified(panel, now) ELSE panels[i]]

\* newCells[cellKey] = cell
withCell(cells, cellKey, cell) ==
    [c \in DOMAIN cells \cup {cellKey} |-> IF c = cellKey THEN cell ELSE cells[c]]

\* delete newCells[cellKey]
withoutCell(cells, cellKey) == [c \in DOMAIN cells \ {cellKey} |-> cells[c]]

\* what the designer hands to updatePanel: its copy of a panel of the store, as it
\* is, wider, with a cell painted in a pattern of the store or with another default
\* pattern of the store
PanelValues(panels, patterns) ==
    UNION {{panels[i],
            [panels[i] EXCEPT !.widthMm = QInt(120)]}
           \cup {[panels[i] EXCEPT !.cells = withCell(@, <<0, 0>>,
                                                      [patternId |-> id, rotation |-> 120])] :
                     id \in StoreIds(patterns)}
           \cup {[panels[i] EXCEPT !.defaultPatternId = id] : id \in StoreIds(patterns)} :
           i \in 1..Len(panels)}

updatePanel ==
    /\ call.actions < MaxStoreActions
    /\ \E panel \in PanelValues(ret.panels, ret.patterns) :
         ret' = [ret EXCEPT !.panels = replacePanel(@, panel, call.actions + 1)]
    /\ call' = Invoked("updatePanel")

\* panels.filter(p => p.id !== panelId)
withoutPanel(panels, panelId) == SelectSeq(panels, LAMBDA p : p.id # panelId)

deletePanel ==
    /\ call.actions < MaxStoreActions
    /\ \E panelId \in PanelIds(ret.panels) \cup {"missing"} :
         ret' = [ret EXCEPT !.panels = withoutPanel(@, panelId),
                            !.editingPanelId = IF @ = panelId THEN NoPanelId ELSE @]
    /\ call' = Invoked("deletePanel")

\* panels.map(p => p.id === panelId ? { ...p, cells: newCells, modified } : p)
withCells(panels, panelId, newCells, now) ==
    [i \in 1..Len(panels) |->
        IF panels[i].id = panelId
        THEN [panels[i] EXCEPT !.cells = newCells, !.modified = now]
        ELSE panels[i]]

\* the cells the store actions are invoked on
StoreCells == {<<0, 0>>, <<0, 1>>}

setCellPattern ==
    /\ call.actions < MaxStoreActions
    /\ \E panelId \in PanelIds(ret.panels) \cup {"missing"}, cellKey \in StoreCells,
          patternId \in StoreIds(ret.patterns), rotation \in {0, 120} :
         IF findPanel(ret.panels, panelId, 1) = undefined THEN ret' = ret
         ELSE ret' = [ret EXCEPT !.panels =
                          withCells(@, panelId,
                                    withCell(findPanel(ret.panels, panelId, 1).cells, cellKey,
                                             [patternId |-> patternId, rotation |-> rotation]),
                                    call.actions + 1)]
    /\ call' = Invoked("setCellPattern")

setCellRotation ==
    /\ call.actions < MaxStoreActions
    /\ \E panelId \in PanelIds(ret.panels) \cup {"missing"}, cellKey \in StoreCells,
          rotation \in {0, 120, 240} :
         IF findPanel(ret.panels, panelId, 1) = undefined THEN ret' = ret
         ELSE IF cellKey \notin DOMAIN findPanel(ret.panels, panelId, 1).cells THEN ret' = ret
         ELSE ret' = [ret EXCEPT !.panels =
                          withCells(@, panelId,
                                    withCell(findPanel(ret.panels, panelId, 1).cells, cellKey,
                                             [findPanel(ret.panels, panelId, 1).cells[cellKey]
                                                  EXCEPT !.rotation = rotation]),
                                    call.actions + 1)]
    /\ call' = Invoked("setCellRotation")

clearCell ==
    /\ call.actions < MaxStoreActions
    /\ \E panelId \in PanelIds(ret.panels) \cup {"missing"}, cellKey \in StoreCells :
         IF findPanel(ret.panels, panelId, 1) = undefined THEN ret' = ret
         ELSE ret' = [ret EXCEPT !.panels =
                          withCells(@, panelId,
                                    withoutCell(findPanel(ret.panels, panelId, 1).cells,
                                                cellKey),
                                    call.actions + 1)]
    /\ call' = Invoked("clearCell")

clearAllCells ==
    /\ call.actions < MaxStoreActions
    /\ \E panelId \in PanelIds(ret.panels) \cup {"missing"} :
         ret' = [ret EXCEPT !.panels = withCells(@, panelId, NoCells, call.actions + 1)]
    /\ call' = Invoked("clearAllCells")

\* panels.map(p => p.id === panelId ? { ...p, defaultPatternId, cells: {}, modified } : p)
filledPanels(panels, panelId, patternId, now) ==
    [i \in 1..Len(panels) |->
        IF panels[i].id = panelId
        THEN [panels[i] EXCEPT !.defaultPatternId = patternId, !.cells = NoCells,
                               !.modified = now]
        ELSE panels[i]]

fillAllCells ==
    /\ call.actions < MaxStoreActions
    /\ \E panelId \in PanelIds(ret.panels) \cup {"missing"},
          patternId \in StoreIds(ret.patterns) :
         IF findPanel(ret.panels, panelId, 1) = undefined THEN ret' = ret
         ELSE ret' = [ret EXCEPT !.panels = filledPanels(@, panelId, patternId,
                                                        call.actions + 1)]
    /\ call' = Invoked("fillAllCells")

\* { ...settings, ...newSettings }
spread(settings, newSettings) ==
    [f \in DOMAIN settings \cup DOMAIN newSettings |->
        IF f \in DOMAIN newSettings THEN newSettings[f] ELSE settings[f]]

\* the Partial<AppSettings> updateSettings is invoked with
SettingsValues ==
    {[defaultTriangleSize |-> QInt(20)], [defaultBaseWeight |-> QInt(1)]}

updateSettings ==
    /\ call.actions < MaxStoreActions
    /\ \E newSettings \in SettingsValues :
         ret' = [ret EXCEPT !.settings = spread(@, newSettings)]
    /\ call' = Invoked("updateSettings")

\* partialize: what is written to localStorage
partialize(state) ==
    [patterns |-> state.patterns, panels |-> state.panels, settings |-> state.settings]

\* customPatterns: the persisted patterns neither isBuiltIn nor tagged 'test'
customPatterns(patterns) ==
    SelectSeq(patterns, LAMBDA p : ~p.isBuiltIn /\ "test" \notin p.tags)

\* merge(persisted, current)
merge(persistedState, current) ==
    [current EXCEPT
        !.patterns = builtInPatterns \o testPatterns \o customPatterns(persistedState.patterns),
        !.panels = persistedState.panels,
        !.settings = spread(defaultSettings, persistedState.settings)]

\* the page is loaded again: the store is created and the persisted state merged
reload ==
    /\ call.actions < MaxStoreActions
    /\ ret' = merge(partialize(ret), initialState)
    /\ call' = [fn |-> "merge", persisted |-> partialize(ret),
                actions |-> call.actions + 1, uuids |-> call.uuids]

NextStore ==
    \/ editPattern
    \/ createPattern
    \/ updatePattern
    \/ deletePattern
    \/ duplicatePatternById
    \/ setView
    \/ editPanel
    \/ createPanel
    \/ updatePanel
    \/ deletePanel
    \/ setCellPattern
    \/ setCellRotation
    \/ clearCell
    \/ clearAllCells
    \/ fillAllCells
    \/ updateSettings
    \/ reload

SpecStore == InitStore /\ [][NextStore]_vars

\* the pattern of the store with the id and the content of the built-in b
HoldsBuiltIn(patterns, b) ==
    \E i \in 1..Len(patterns) :
        /\ patterns[i].id = b.id
        /\ patterns[i].isBuiltIn = TRUE
        /\ patterns[i].baseWeight = b.baseWeight
        /\ patterns[i].cornerToCenter = b.cornerToCenter
        /\ patterns[i].edgeParallel = b.edgeParallel
        /\ patterns[i].cornerArcs = b.cornerArcs

\* C20: after any sequence of createPattern, updatePattern, deletePattern,
\* duplicatePatternById and editPattern, every built-in pattern is in the store
\* under its id, with isBuiltIn true and its baseWeight and nine slots as built in.
C20_BuiltInsImmutable ==
    \A i \in 1..Len(builtInPatterns) : HoldsBuiltIn(ret.patterns, builtInPatterns[i])

\* the sequence without its i-th element
WithoutIndex(seq, i) == SubSeq(seq, 1, i - 1) \o SubSeq(seq, i + 1, Len(seq))

\* deletePattern(id) must leave the store as it is
KeptByDelete(patterns, id) ==
    \/ id \notin StoreIds(patterns)
    \/ \E i \in 1..Len(patterns) :
           patterns[i].id = id /\ (patterns[i].isBuiltIn \/ "test" \in patterns[i].tags)

\* C21: deletePattern(id) on a built-in pattern, a pattern tagged 'test' or an id
\* not in the store leaves the whole state of the store unchanged; on any other
\* pattern it removes exactly that pattern, makes editingPatternId null when it
\* was id and leaves it otherwise, and leaves the other patterns, the panels,
\* the settings, currentView and editingPanelId unchanged.
C21_DeleteFrame ==
    [][call'.fn = "deletePattern" =>
         IF KeptByDelete(ret.patterns, call'.patternId) THEN ret' = ret
         ELSE /\ \E i \in 1..Len(ret.patterns) :
                   /\ ret.patterns[i].id = call'.patternId
                   /\ ret'.patterns = WithoutIndex(ret.patterns, i)
              /\ ret'.editingPatternId =
                     IF ret.editingPatternId = call'.patternId THEN NoPatternId
                     ELSE ret.editingPatternId
              /\ ret'.panels = ret.panels
              /\ ret'.settings = ret.settings
              /\ ret'.currentView = ret.currentView
              /\ ret'.editingPanelId = ret.editingPanelId]_vars

\* the pattern ids a panel refers to: its default pattern and those of its cells
ReferredIds(panel) ==
    {panel.defaultPatternId} \cup {panel.cells[c].patternId : c \in DOMAIN panel.cells}

\* C29: after any sequence of createPanel, updatePanel, setCellPattern,
\* fillAllCells, createPattern, duplicatePatternById and deletePattern, the
\* defaultPatternId of every panel and the patternId of every entry of its cells
\* are ids of patterns of the store.
C29_ReferentialIntegrity ==
    \A i \in 1..Len(ret.panels) : ReferredIds(ret.panels[i]) \subseteq StoreIds(ret.patterns)

\* the step duplicates a pattern of the store: the copy has an id no pattern had,
\* it is not built-in, and the patterns that were there are as they were
CopyMade(patterns, newPatterns, returned) ==
    /\ returned # NoPatternId
    /\ returned \notin StoreIds(patterns)
    /\ Len(newPatterns) = Len(patterns) + 1
    /\ SubSeq(newPatterns, 1, Len(patterns)) = patterns
    /\ newPatterns[Len(newPatterns)].id = returned
    /\ newPatterns[Len(newPatterns)].isBuiltIn = FALSE

\* the action before this step was a duplicatePatternById that made a copy
JustDuplicated == call.fn = "duplicatePatternById" /\ call.returned # NoPatternId

\* C30: duplicatePatternById on a pattern of the store (built-in, tagged 'test' or
\* custom) adds a copy with a fresh id and isBuiltIn false and leaves the source
\* and every other pattern unchanged; on an unknown id it returns '' and leaves
\* the store unchanged; a deletePattern(newId) that follows removes the copy, and
\* a reload that follows keeps it.
C30_UserOwnedCopy ==
    [][/\ call'.fn = "duplicatePatternById" =>
             IF call'.patternId \in StoreIds(ret.patterns)
             THEN /\ CopyMade(ret.patterns, ret'.patterns, call'.returned)
                  /\ ret' = [ret EXCEPT !.patterns = ret'.patterns]
             ELSE call'.returned = NoPatternId /\ ret' = ret
       /\ (JustDuplicated /\ call'.fn = "deletePattern"
                /\ call'.patternId = call.returned) =>
             call.returned \notin StoreIds(ret'.patterns)
       /\ (JustDuplicated /\ call'.fn = "merge") =>
             call.returned \in StoreIds(ret'.patterns)]_vars

\* the patterns the application ships: the built-ins, then the test patterns
Shipped == builtInPatterns \o testPatterns

\* the number of patterns of the list that have the id
Occurrences(patterns, id) == Cardinality({i \in 1..Len(patterns) : patterns[i].id = id})

\* the persisted patterns that are neither isBuiltIn nor tagged 'test', in order
PersistedOwn(patterns) ==
    SelectSeq(patterns, LAMBDA p : p.isBuiltIn = FALSE /\ "test" \notin p.tags)

\* the list is the shipped patterns followed by the persisted patterns of the user,
\* and no id occurs twice in it
MergedPatterns(merged, persisted) ==
    /\ \A i \in 1..Len(Shipped) :
           /\ Len(merged) >= i /\ merged[i] = Shipped[i]
           /\ Occurrences(merged, Shipped[i].id) = 1
    /\ SubSeq(merged, Len(Shipped) + 1, Len(merged)) = PersistedOwn(persisted)
    /\ \A i \in 1..Len(merged) : Occurrences(merged, merged[i].id) = 1

\* the defaults, overridden by the persisted settings
MergedSettings(settings, persisted) ==
    /\ DOMAIN settings = DOMAIN defaultSettings \cup DOMAIN persisted
    /\ \A f \in DOMAIN settings :
           settings[f] = IF f \in DOMAIN persisted THEN persisted[f] ELSE defaultSettings[f]

\* C25: after the persisted state is merged on load, the patterns of the store
\* are every shipped built-in and test pattern exactly once, as shipped whatever
\* was persisted under its id, followed by exactly the persisted patterns that
\* are neither isBuiltIn nor tagged 'test', in their persisted order; no id occurs
\* twice; the panels are the persisted panels and the settings the defaults
\* overridden by the persisted settings.
C25_MergeOnLoad ==
    [][call'.fn = "merge" =>
         /\ MergedPatterns(ret'.patterns, call'.persisted.patterns)
         /\ ret'.panels = call'.persisted.panels
         /\ MergedSettings(ret'.settings, call'.persisted.settings)]_vars

(***************************************************************************)
(* The panel designer: src/src/components/PanelDesigner/PanelDesigner.tsx   *)
(* over the store.  ret is the state of the store; call is the component:  *)
(* whether App has it mounted, its four state cells, the pending timer of  *)
(* the auto-save effect with the panel its callback closes over, the       *)
(* handler that ran last with its arguments, the number of handlers run so *)
(* far (the clock of Date.now()) and the value the latest edit gave the    *)
(* local panel.  A handler is one step together with the effects its state *)
(* updates run: the cleanup of the auto-save effect (clearTimeout) and its *)
(* new setTimeout.  The timer firing is a step of its own.                 *)
(***************************************************************************)

MaxDesignerEvents == 5

\* the patterns of the palette the user picks from
PaletteIds == {"builtin-asanoha", "builtin-goma"}

\* the cells of the canvas the user clicks
DesignerCells == {<<0, 0>>, <<0, 1>>}

\* the store holds one panel, as createPanel made it
designerStore ==
    [initialState EXCEPT
        !.panels = <<newPanel("panel-1", 0, defaultSettings,
                              findPattern(initialState.patterns, "builtin-empty", 1))>>]

\* no component: App renders PanelDesigner only when currentView is 'panel-designer'
unmounted(fn, clock, edited) ==
    [fn |-> fn, arg |-> <<>>, clock |-> clock, mounted |-> FALSE, localPanel |-> null,
     selectedPatternId |-> "", selectedRotation |-> 0, hasChanges |-> FALSE,
     timer |-> null, edited |-> edited]

InitDesigner ==
    /\ ret = designerStore
    /\ call = unmounted("App", 0, null)

\* the library opens a panel: editPanel(panel.id); App mounts the designer and its
\* "Initialize local panel" effect copies the panel of the store
openPanel ==
    /\ call.clock < MaxDesignerEvents
    /\ ~call.mounted
    /\ \E panelId \in PanelIds(ret.panels) :
         /\ ret' = [ret EXCEPT !.editingPanelId = panelId, !.currentView = "panel-designer"]
         /\ call' = [call EXCEPT !.fn = "editPanel", !.arg = <<panelId>>,
                                 !.clock = @ + 1, !.mounted = TRUE,
                                 !.localPanel = findPanel(ret.panels, panelId, 1),
                                 !.selectedPatternId =
                                     findPanel(ret.panels, panelId, 1).defaultPatternId,
                                 !.selectedRotation = 0, !.hasChanges = FALSE,
                                 !.timer = null]

\* setLocalPanel(updated); setHasChanges(true): the auto-save effect clears the
\* timer it had set and sets one whose callback holds the new local panel
edits(fn, arg, updated) ==
    [call EXCEPT !.fn = fn, !.arg = arg, !.clock = @ + 1, !.localPanel = updated,
                 !.hasChanges = TRUE, !.timer = updated, !.edited = updated]

\* a handler that changes no state of the component
leaves(fn, arg) == [call EXCEPT !.fn = fn, !.arg = arg, !.clock = @ + 1]

handleCellClick ==
    /\ call.clock < MaxDesignerEvents
    /\ call.mounted /\ call.localPanel # null
    /\ \E cellKey \in DesignerCells :
         call' = edits("handleCellClick", cellKey,
                       [call.localPanel EXCEPT !.cells =
                            withCell(@, cellKey, [patternId |-> call.selectedPatternId,
                                                  rotation |-> call.selectedRotation])])
    /\ UNCHANGED ret

\* a rotation that leaves 0, 120, 240
nextRotation_noWrap(rotation) == rotation + 120

\* (existingCell.rotation + 120) % 360
nextRotation(rotation) == (rotation + 120) % 360

handleCellRightClick ==
    /\ call.clock < MaxDesignerEvents
    /\ call.mounted /\ call.localPanel # null
    /\ \E cellKey \in DesignerCells :
         IF cellKey \in DOMAIN call.localPanel.cells
         THEN call' = edits("handleCellRightClick", cellKey,
                            [call.localPanel EXCEPT !.cells =
                                 withCell(@, cellKey,
                                          [@[cellKey] EXCEPT !.rotation =
                                               nextRotation(@)])])
         ELSE call' = leaves("handleCellRightClick", cellKey)
    /\ UNCHANGED ret

\* shift-click on a cell: GridCanvas picks the pattern and rotation of its entry,
\* or the default pattern, when the store has it, with rotation 0
handlePatternPick ==
    /\ call.clock < MaxDesignerEvents
    /\ call.mounted /\ call.localPanel # null
    /\ \E cellKey \in DesignerCells :
         IF cellKey \in DOMAIN call.localPanel.cells
         THEN call' = [leaves("handlePatternPick", cellKey) EXCEPT
                          !.selectedPatternId = call.localPanel.cells[cellKey].patternId,
                          !.selectedRotation = call.localPanel.cells[cellKey].rotation]
         ELSE IF call.localPanel.defaultPatternId \in StoreIds(ret.patterns)
         THEN call' = [leaves("handlePatternPick", cellKey) EXCEPT
                          !.selectedPatternId = call.localPanel.defaultPatternId,
                          !.selectedRotation = 0]
         ELSE call' = leaves("handlePatternPick", cellKey)
    /\ UNCHANGED ret

\* the palette's onSelect
setSelectedPatternId ==
    /\ call.clock < MaxDesignerEvents
    /\ call.mounted /\ call.localPanel # null
    /\ \E patternId \in PaletteIds :
         call' = [leaves("setSelectedPatternId", <<patternId>>) EXCEPT
                     !.selectedPatternId = patternId]
    /\ UNCHANGED ret

\* the Rotation select: Number(v) of '0', '120', '240'
setSelectedRotation ==
    /\ call.clock < MaxDesignerEvents
    /\ call.mounted /\ call.localPanel # null
    /\ \E rotation \in {0, 120, 240} :
         call' = [leaves("setSelectedRotation", <<rotation>>) EXCEPT
                     !.selectedRotation = rotation]
    /\ UNCHANGED ret

handleClearAll ==
    /\ call.clock < MaxDesignerEvents
    /\ call.mounted /\ call.localPanel # null
    /\ \E confirm \in BOOLEAN :
         IF confirm
         THEN call' = edits("handleClearAll", <<confirm>>,
                            [call.localPanel EXCEPT !.cells = NoCells])
         ELSE call' = leaves("handleClearAll", <<confirm>>)
    /\ UNCHANGED ret

handleFillAll ==
    /\ call.clock < MaxDesignerEvents
    /\ call.mounted /\ call.localPanel # null
    /\ call' = edits("handleFillAll", <<>>,
                     [call.localPanel EXCEPT !.defaultPatternId = call.selectedPatternId,
                                             !.cells = NoCells])
    /\ UNCHANGED ret

\* what PanelSettings hands to onChange: { ...panel, ...changes }
SettingsChanges(panel) ==
    {[panel EXCEPT !.widthMm = QInt(120)]}
    \cup {[panel EXCEPT !.defaultPatternId = patternId] : patternId \in PaletteIds}

handlePanelChange ==
    /\ call.clock < MaxDesignerEvents
    /\ call.mounted /\ call.localPanel # null
    /\ \E updated \in SettingsChanges(call.localPanel) :
         call' = edits("handlePanelChange", <<>>, updated)
    /\ UNCHANGED ret

\* Back: editPanel(null); currentView is 'library', App unmounts the designer and
\* the cleanup of the auto-save effect clears the timer
handleBack ==
    /\ call.clock < MaxDesignerEvents
    /\ call.mounted /\ call.localPanel # null
    /\ ret' = [ret EXCEPT !.editingPanelId = NoPanelId, !.currentView = "library"]
    /\ call' = unmounted("handleBack", call.clock + 1, call.edited)

\* the timer of the auto-save effect fires: updatePanel(localPanel);
\* setHasChanges(false), after which the effect sets no timer
autoSave ==
    /\ call.timer # null
    /\ ret' = [ret EXCEPT !.panels = replacePanel(@, call.timer, call.clock)]
    /\ call' = [call EXCEPT !.fn = "updatePanel", !.arg = <<>>, !.hasChanges = FALSE,
                            !.timer = null]

NextDesigner ==
    \/ openPanel
    \/ handleCellClick
    \/ handleCellRightClick
    \/ handlePatternPick
    \/ setSelectedPatternId
    \/ setSelectedRotation
    \/ handleClearAll
    \/ handleFillAll
    \/ handlePanelChange
    \/ handleBack
    \/ autoSave

SpecDesigner == InitDesigner /\ [][NextDesigner]_vars

\* a timer that is set and not cleared fires after its 500 ms
FairDesigner == SpecDesigner /\ WF_vars(autoSave)

\* the store holds the panel with these values; updatePanel stamps modified
Stored(panel) ==
    /\ panel.id \in PanelIds(ret.panels)
    /\ [findPanel(ret.panels, panel.id, 1) EXCEPT !.modified = 0]
           = [panel EXCEPT !.modified = 0]

\* the user has edited the panel and the store does not hold the latest value
Unsaved == call.edited # null /\ ~Stored(call.edited)

\* C22: every local edit of the panel (painting or rotating a cell, clear all,
\* fill all, changing a setting) is eventually written to the store with the
\* latest local value of the panel, whatever the user does next: more edits
\* before the timer fires, or Back, which unmounts the designer.
C22_EditsAreSaved == Unsaved ~> (call.edited # null /\ Stored(call.edited))

\* every entry of the cells has a rotation of 0, 120 or 240
RotationsIn(cells) == \A c \in DOMAIN cells : cells[c].rotation \in {0, 120, 240}

\* the rotation after 0, 120 and 240
Advanced(rotation) == CASE rotation = 0 -> 120 [] rotation = 120 -> 240 [] rotation = 240 -> 0

\* a right-click on a cell with an entry: only the rotation of that entry changes
RotatedOnly(panel, rotated, cellKey) ==
    /\ DOMAIN rotated.cells = DOMAIN panel.cells
    /\ \A c \in DOMAIN panel.cells \ {cellKey} : rotated.cells[c] = panel.cells[c]
    /\ rotated.cells[cellKey].patternId = panel.cells[cellKey].patternId
    /\ rotated.cells[cellKey].rotation = Advanced(panel.cells[cellKey].rotation)
    /\ [rotated EXCEPT !.cells = panel.cells] = panel

\* C26: a right-click on a cell with an explicit entry advances the rotation of
\* that entry 0 -> 120 -> 240 -> 0 and changes nothing else of the panel, so that
\* three right-clicks restore the rotation; on a cell without an entry it
\* changes nothing; and after any sequence of paints, right-clicks, clear-all
\* and fill-all every rotation of the local panel and of the panels of the store
\* is 0, 120 or 240.
C26_RightClickCycles ==
    /\ [](/\ call.localPanel # null => RotationsIn(call.localPanel.cells)
          /\ \A i \in 1..Len(ret.panels) : RotationsIn(ret.panels[i].cells)
          /\ \A r \in {0, 120, 240} : nextRotation(nextRotation(nextRotation(r))) = r)
    /\ [][call'.fn = "handleCellRightClick" =>
             IF call'.arg \in DOMAIN call.localPanel.cells
             THEN RotatedOnly(call.localPanel, call'.localPanel, call'.arg) /\ ret' = ret
             ELSE /\ call'.localPanel = call.localPanel
                  /\ call'.hasChanges = call.hasChanges
                  /\ call'.timer = call.timer
                  /\ ret' = ret]_vars

\* a right-click has taken the entry of cell 0,0 from 240 back to 0 while cell 0,1
\* has an entry
C26_Witness ==
    /\ call.fn = "handleCellRightClick"
    /\ call.arg = <<0, 0>>
    /\ call.hasChanges
    /\ DOMAIN call.localPanel.cells = {<<0, 0>>, <<0, 1>>}
    /\ call.localPanel.cells[<<0, 0>>].rotation = 0
    /\ call.localPanel.cells[<<0, 1>>].rotation = 240

\* the account of the loop of the call
ClipRun ==
    clipLineRun(call.start, call.end, call.rect.minX, call.rect.minY,
                call.rect.maxX, call.rect.maxY)

\* C24: for every pair of endpoints and every rectangle with minX <= maxX and
\* minY <= maxY the loop of clipLineToRect ends, by accept or reject, after at
\* most four re-clips, and no iteration divides by zero.
C24_ClipLoopEnds ==
    Returned("clipLineToRect") =>
        /\ ClipRun.returned
        /\ ClipRun.reclips <= 4
        /\ ~ClipRun.zeroDivisor
        /\ ret = ClipRun.value

\* a segment across the panel from outside a corner to outside the opposite one
\* is accepted after four re-clips
C24_Witness ==
    /\ Returned("clipLineToRect")
    /\ ClipRun.reclips = 4
    /\ ret # null

\* C27: every corner-to-center line generatePatternSegments emits is a part of
\* the segment from the corner to the centroid, for every blocker position
\* strictly between edge and corner, every weight and both values of startSide:
\* its two ends are on the closed segment from the corner to the centroid and its
\* start is not farther from the corner than its end.
C27_WithinCornerToCentroid ==
    Returned("generatePatternSegments") =>
        \A c \in ConfiguredCorners :
            /\ OnSegment(CornerLine(c).start, SegTri[c], SegTri.centroid)
            /\ OnSegment(CornerLine(c).end, SegTri[c], SegTri.centroid)
            /\ QLe(SqLen(SegTri[c], CornerLine(c).start), SqLen(SegTri[c], CornerLine(c).end))

(***************************************************************************)
(* The loops over the grid: generatePanelGeometry and GridCanvas.draw both  *)
(* take rows and cols from calculateGridDimensions and run                  *)
(*   for (row = 0; row < rows; row++) for (col = 0; col < cols; col++)      *)
(* over them.  ret is the dimensions with the account of the loops.         *)
(***************************************************************************)

\* the passes of the loops that are followed
MaxPasses == 40

\* the two loops from (row, col) on; passes counts the tests of a loop condition
\* that held
RECURSIVE gridLoop(_, _, _, _, _)
gridLoop(rows, cols, row, col, passes) ==
    CASE passes >= MaxPasses -> [finished |-> FALSE, passes |-> passes]
      [] ~(row < rows) -> [finished |-> TRUE, passes |-> passes]
      [] ~(col < cols) -> gridLoop(rows, cols, row + 1, 0, passes + 1)
      [] OTHER -> gridLoop(rows, cols, row, col + 1, passes + 1)

\* the dimensions of the panel and how the loops over them went
gridRun(dims) ==
    [rows |-> dims.rows, cols |-> dims.cols,
     finished |-> gridLoop(dims.rows, dims.cols, 0, 0, 0).finished,
     passes |-> gridLoop(dims.rows, dims.cols, 0, 0, 0).passes]

\* what the number inputs of the designer give: Number(e.target.value), 0 for ''
DesignerSizes == {QInt(0), QInt(5), QInt(10), QInt(20)}
DesignerTriangleSizes == {QInt(0), QInt(10), QInt(20), QInt(50)}

InitLoops ==
    /\ call \in {[fn |-> fn, widthMm |-> w, heightMm |-> h, triangleSizeMm |-> e] :
                    fn \in {"generatePanelGeometry", "draw"},
                    w \in DesignerSizes, h \in DesignerSizes, e \in DesignerTriangleSizes}
    /\ ret = NoValue

\* generatePanelGeometry of a panel whose default pattern is in the list
GenerateGrid ==
    /\ call.fn = "generatePanelGeometry"
    /\ ret = NoValue
    /\ ret' = gridRun(calculateGridDimensions(call.widthMm, call.heightMm,
                                              call.triangleSizeMm))
    /\ UNCHANGED call

\* draw of GridCanvas
DrawGrid ==
    /\ call.fn = "draw"
    /\ ret = NoValue
    /\ ret' = gridRun(calculateGridDimensions(call.widthMm, call.heightMm,
                                              call.triangleSizeMm))
    /\ UNCHANGED call

NextLoops ==
    \/ GenerateGrid
    \/ DrawGrid

SpecLoops == InitLoops /\ [][NextLoops]_vars

\* C28: for every widthMm, heightMm and triangleSizeMm the designer can produce,
\* 0 included, calculateGridDimensions gives finite rows and cols and the loops
\* over rows and columns of generatePanelGeometry and of GridCanvas.draw finish.
C28_GridLoopsFinish ==
    ret # NoValue => isFinite(ret.rows) /\ isFinite(ret.cols) /\ ret.finished

(***************************************************************************)
(* Drawing an ArcSegment: ArcShape (src/unnamed/part_002) builds an SVG     *)
(* path, GridCanvas.draw (src/unnamed/part_001) calls ctx.arc.  An angle is *)
(* carried as the vector it is the direction of; y grows downwards in both  *)
(* backends, so that growing angles turn clockwise on the screen.  What is  *)
(* drawn is the center, the two ends and the direction of the sweep.        *)
(***************************************************************************)

\* the sign of Math.sin(endAngle - startAngle)
angleTurn(startAngle, endAngle) ==
    QSign(QSub(QMul(startAngle.dx, endAngle.dy), QMul(startAngle.dy, endAngle.dx)))

\* the sign of Math.cos(endAngle - startAngle)
angleAlong(startAngle, endAngle) ==
    QSign(QAdd(QMul(startAngle.dx, endAngle.dx), QMul(startAngle.dy, endAngle.dy)))

\* Math.atan2 gave an angle above 0: it is in (-PI, PI]
positiveAngle(angle) ==
    QSign(angle.dy) > 0 \/ (QSign(angle.dy) = 0 /\ QSign(angle.dx) < 0)

\* the sign of angleDiff after "Normalize to [-PI, PI]": that of the sine, and
\* for opposite directions that of endAngle - startAngle, which is PI or -PI
angleDiffSign(startAngle, endAngle) ==
    IF angleTurn(startAngle, endAngle) # 0 THEN angleTurn(startAngle, endAngle)
    ELSE IF angleAlong(startAngle, endAngle) > 0 THEN 0
    ELSE IF positiveAngle(endAngle) THEN 1
    ELSE -1

\* center + radius * (Math.cos(angle), Math.sin(angle)); the cosine is
\* angle.dx / hypot, which for a direction of the length of the radius leaves
\* center + (angle.dx, angle.dy)
pointAtAngle(center, radius, angle) ==
    IF QAdd(QMul(angle.dx, angle.dx), QMul(angle.dy, angle.dy)) = QMul(radius, radius)
    THEN Pt(QAdd(center.x, angle.dx), QAdd(center.y, angle.dy))
    ELSE Pt(QAdd(center.x, QDiv(QMul(radius, angle.dx), hypot(angle.dx, angle.dy))),
            QAdd(center.y, QDiv(QMul(radius, angle.dy), hypot(angle.dx, angle.dy))))

\* sweepFlag = angleDiff < 0 ? 0 : 1
sweepFlagOf(startAngle, endAngle) ==
    IF angleDiffSign(startAngle, endAngle) < 0 THEN 0 ELSE 1

\* the path of ArcShape: M start A radius radius 0 0 sweepFlag end
ArcShape(arc) ==
    [M |-> pointAtAngle(arc.center, arc.radius, arc.startAngle),
     radius |-> arc.radius, largeArc |-> 0,
     sweepFlag |-> sweepFlagOf(arc.startAngle, arc.endAngle),
     end |-> pointAtAngle(arc.center, arc.radius, arc.endAngle)]

\* the turn from a to b about c, 1 when clockwise on the screen
turnAbout(c, a, b) ==
    QSign(QSub(QMul(QSub(a.x, c.x), QSub(b.y, c.y)), QMul(QSub(a.y, c.y), QSub(b.x, c.x))))

\* what an SVG renderer draws for the path: of the two circles of the radius
\* through the ends, whose centers center1 and center2 mirror each other at the
\* chord, the one on which the sweep in the direction of the flag is the
\* small arc (largeArc is 0)
svgDrawn(path, center1, center2) ==
    [center |-> IF turnAbout(center1, path.M, path.end) = (IF path.sweepFlag = 1 THEN 1 ELSE -1)
                THEN center1 ELSE center2,
     from |-> path.M, to |-> path.end, clockwise |-> path.sweepFlag = 1]

\* what ctx.arc(x, y, radius, startAngle, endAngle) draws: from startAngle to
\* endAngle clockwise, its sixth argument being false when left out
canvasDrawn(center, radius, startAngle, endAngle) ==
    [center |-> center, from |-> pointAtAngle(center, radius, startAngle),
     to |-> pointAtAngle(center, radius, endAngle), clockwise |-> TRUE]

\* the sweep drawn is below 180 degrees
MinorArc(drawn) ==
    turnAbout(drawn.center, drawn.from, drawn.to) = (IF drawn.clockwise THEN 1 ELSE -1)

SvgArc == svgDrawn(ArcShape(ret), ret.center, OtherCenter(ret, ArcP1, ArcP2))
CanvasArc == canvasDrawn(ret.center, ret.radius, ret.startAngle, ret.endAngle)

\* C23: each ArcSegment, of an up-pointing cell or a down-pointing one, is drawn
\* as the minor arc between its start and end points by the SVG backend and by
\* the canvas backend, and both draw the same arc.
C23_BackendsDrawMinorArc ==
    (Returned("calculateInwardArc") /\ ret # null) =>
        /\ MinorArc(SvgArc)
        /\ MinorArc(CanvasArc)
        /\ SvgArc = CanvasArc

=============================================================================
